---- MODULE Spec2Model ----
(***************************************************************************)
(* Weekly report generator: the template mutator of                        *)
(* generate_weekly_report_from_template.py and the text normalizer of      *)
(* app.py.                                                                 *)
(*                                                                         *)
(* A text is a sequence of tokens.  A token is one character (" ", "\n",  *)
(* "\r", "-", ".", "a", ...) or a fixed string that the code only compares  *)
(* as a whole and that neither starts nor ends with whitespace (a heading,  *)
(* a label, a formatted date), so that strip, splitlines, startswith and    *)
(* the regular expression act on tokens as the Python code acts on          *)
(* characters.  A document is the sequence of its body paragraphs; a        *)
(* paragraph has an identity (its XML element), runs, a style and a left    *)
(* indent.  Characters outside ASCII are written in ASCII: the bullet glyph *)
(* as "(bullet)", the arrow of the week range as "->", the curly quotes of  *)
(* the headings as straight ones.                                           *)
(***************************************************************************)
EXTENDS Integers, Sequences, FiniteSets, TLC

VARIABLES
    mode,     \* which entry point runs: "render", "clear", "bullets", "content",
              \* "index", "normalize", "generate", "requests", "coerce", "parse",
              \* "ai_tasks", "chain"
    pc,       \* position in the running entry point (one per request when
              \* requests are served together)
    doc,      \* the document in memory: sequence of paragraphs
    nid,      \* next fresh paragraph identity (OxmlElement("w:p"))
    tmpl,     \* the document as it was loaded / before the call; with path
              \* arguments, the content of the --template file before the run
    data,     \* the record read from the YAML input; per request, the locals
              \* of the handler
    output,   \* sequence of documents written by doc.save
    deleted,  \* paragraphs removed by the latest clear_between / focus deletion
    arg,      \* arguments of the primitive under call; for main, its environment
    res,      \* results returned by the primitive under call; for main, the
              \* steps it has run so far, "raise" for one that raised
    files,          \* the files on disk: the set of temporary files that
                    \* /generate created, or, where contents matter, the
                    \* function from each path that exists to its content
    cleanup_paths   \* /generate: the paths _cleanup removes after the request

vars == <<mode, pc, doc, nid, tmpl, data, output, deleted, arg, res, files, cleanup_paths>>

-----------------------------------------------------------------------------
(* Bounds *)

MaxTextLen == 4      \* longest text given to _normalize_inline_bullets
MaxContentLen == 6   \* longest marked text given to the expansion primitives
MaxDocLen == 5       \* longest document given to clear_between on its own
MaxItems == 2        \* longest execution_output list given to main

-----------------------------------------------------------------------------
(* Characters and Python's str methods *)

SP == " "
NL == "\n"
CR == "\r"
DASH == "-"
BULLET == "(bullet)"   \* the glyph U+2022

Whitespace == {SP, NL, CR}
LineBreaks == {NL, CR}

IsWs(c) == c \in Whitespace

Last(s) == s[Len(s)]
Front(s) == SubSeq(s, 1, Len(s) - 1)

\* str.lstrip(chars) / str.rstrip(chars) / str.strip(chars)
RECURSIVE LStripSet(_, _)
LStripSet(s, cs) ==
    IF s # <<>> /\ Head(s) \in cs THEN LStripSet(Tail(s), cs) ELSE s

RECURSIVE RStripSet(_, _)
RStripSet(s, cs) ==
    IF s # <<>> /\ Last(s) \in cs THEN RStripSet(Front(s), cs) ELSE s

StripSet(s, cs) == RStripSet(LStripSet(s, cs), cs)

LStrip(s) == LStripSet(s, Whitespace)
RStrip(s) == RStripSet(s, Whitespace)
Strip(s) == StripSet(s, Whitespace)
StripNL(s) == StripSet(s, {NL})

StartsWith(s, p) == Len(s) >= Len(p) /\ SubSeq(s, 1, Len(p)) = p

Contains(s, c) == \E i \in 1..Len(s) : s[i] = c

\* str.replace("\r\n", "\n"): leftmost, non-overlapping
RECURSIVE ReplaceCRLF(_)
ReplaceCRLF(s) ==
    IF s = <<>> THEN <<>>
    ELSE IF Len(s) >= 2 /\ s[1] = CR /\ s[2] = NL
         THEN <<NL>> \o ReplaceCRLF(SubSeq(s, 3, Len(s)))
         ELSE <<Head(s)>> \o ReplaceCRLF(Tail(s))

\* str.splitlines(): breaks at "\n", "\r" and "\r\n"; no empty last line
RECURSIVE SplitLinesFrom(_, _)
SplitLinesFrom(s, cur) ==
    IF s = <<>> THEN (IF cur = <<>> THEN <<>> ELSE <<cur>>)
    ELSE IF Len(s) >= 2 /\ s[1] = CR /\ s[2] = NL
         THEN <<cur>> \o SplitLinesFrom(SubSeq(s, 3, Len(s)), <<>>)
    ELSE IF Head(s) \in LineBreaks
         THEN <<cur>> \o SplitLinesFrom(Tail(s), <<>>)
    ELSE SplitLinesFrom(Tail(s), Append(cur, Head(s)))

SplitLines(s) == SplitLinesFrom(s, <<>>)

\* "\n".join(parts)
RECURSIVE JoinNL(_)
JoinNL(parts) ==
    IF parts = <<>> THEN <<>>
    ELSE IF Len(parts) = 1 THEN parts[1]
    ELSE parts[1] \o <<NL>> \o JoinNL(Tail(parts))

\* all sequences over S of length at most n
RECURSIVE SeqsUpTo(_, _)
SeqsUpTo(S, n) ==
    IF n = 0 THEN {<<>>}
    ELSE LET shorter == SeqsUpTo(S, n - 1)
         IN shorter \cup {Append(s, c) : s \in {t \in shorter : Len(t) = n - 1}, c \in S}

-----------------------------------------------------------------------------
(* app.py: _normalize_inline_bullets *)

Punct == {".", "!", "?", ":"}

\* length of the whitespace run of s that starts at index i
RECURSIVE WsRun(_, _)
WsRun(s, i) == IF i <= Len(s) /\ IsWs(s[i]) THEN 1 + WsRun(s, i + 1) ELSE 0

\* _INLINE_BULLET_RE = ([.!?:])\s+-\s+ matched at index i: the length of the
\* match, 0 when there is none.  "-" is no whitespace, so each \s+ takes the
\* whole run.
InlineBulletMatch(s, i) ==
    IF i > Len(s) \/ s[i] \notin Punct THEN 0
    ELSE LET w1 == WsRun(s, i + 1)
             d  == i + 1 + w1
         IN IF w1 = 0 \/ d > Len(s) \/ s[d] # DASH THEN 0
            ELSE LET w2 == WsRun(s, d + 1)
                 IN IF w2 = 0 THEN 0 ELSE 1 + w1 + 1 + w2

\* _INLINE_BULLET_RE.sub(r"\1\n- ", s)
RECURSIVE InlineBulletSub(_, _)
InlineBulletSub(s, i) ==
    IF i > Len(s) THEN <<>>
    ELSE LET m == InlineBulletMatch(s, i)
         IN IF m > 0
            THEN <<s[i], NL, DASH, SP>> \o InlineBulletSub(s, i + m)
            ELSE <<s[i]>> \o InlineBulletSub(s, i + 1)

_normalize_inline_bullets(text) ==
    IF text = <<>> THEN text
    ELSE InlineBulletSub(ReplaceCRLF(text), 1)

-----------------------------------------------------------------------------
(* Documents, paragraphs and the paragraph primitives *)

NoIndent == -1       \* left_indent_in is None: the paragraph format is untouched
NoStyle == "(template)"

Run(text, bold) == [text |-> text, bold |-> bold]

Para(id, runs, style, indent) ==
    [id |-> id, runs |-> runs, style |-> style, indent |-> indent]

RECURSIVE RunsText(_)
RunsText(runs) ==
    IF runs = <<>> THEN <<>> ELSE Head(runs).text \o RunsText(Tail(runs))

\* Paragraph.text
ParaText(p) == RunsText(p.runs)

Ids(d) == {d[i].id : i \in 1..Len(d)}

\* index in d of the paragraph with identity id, 0 when it is not in d
PosOf(d, id) ==
    IF \E i \in 1..Len(d) : d[i].id = id
    THEN CHOOSE i \in 1..Len(d) : d[i].id = id
    ELSE 0

\* the paragraphs of d whose identity is in ids, in document order
RECURSIVE Keep(_, _)
Keep(d, ids) ==
    IF d = <<>> THEN <<>>
    ELSE IF Head(d).id \in ids THEN <<Head(d)>> \o Keep(Tail(d), ids)
    ELSE Keep(Tail(d), ids)

\* delete_paragraph: p.getparent().remove(p)
delete_paragraph(d, id) == Keep(d, Ids(d) \ {id})

\* for p in to_delete: delete_paragraph(p)
RECURSIVE DeleteAll(_, _)
DeleteAll(d, to_delete) ==
    IF to_delete = <<>> THEN d
    ELSE DeleteAll(delete_paragraph(d, Head(to_delete).id), Tail(to_delete))

\* an insertion that appends the new paragraph at the end of the document
AddNextAtEnd(d, id, new) == Append(d, new)

\* lxml addnext: new becomes the next sibling of the paragraph with identity id
AddNext(d, id, new) ==
    LET i == PosOf(d, id)
    IN SubSeq(d, 1, i) \o <<new>> \o SubSeq(d, i + 1, Len(d))

(* A cursor is the document under construction, the paragraph the next      *)
(* insertion goes after (the value the insert functions return) and the     *)
(* next fresh paragraph identity.                                           *)
Cursor(d, last, n) == [doc |-> d, last |-> last, nid |-> n]

\* insert_paragraph_after(paragraph, text, style): one run, also for text ""
insert_paragraph_after(c, text, style) ==
    LET new == Para(c.nid, <<Run(text, FALSE)>>, style, NoIndent)
    IN Cursor(AddNext(c.doc, c.last, new), c.nid, c.nid + 1)

\* the runs insert_paragraph_after_runs adds: "if text:" drops empty runs
RECURSIVE NonEmptyRuns(_)
NonEmptyRuns(runs) ==
    IF runs = <<>> THEN <<>>
    ELSE IF Head(runs).text # <<>> THEN <<Head(runs)>> \o NonEmptyRuns(Tail(runs))
    ELSE NonEmptyRuns(Tail(runs))

\* insert_paragraph_after_runs(paragraph, runs, style)
insert_paragraph_after_runs(c, runs, style) ==
    LET new == Para(c.nid, NonEmptyRuns(runs), style, NoIndent)
    IN Cursor(AddNext(c.doc, c.last, new), c.nid, c.nid + 1)

\* _set_left_indent on the paragraph the cursor stands on
_set_left_indent(c, indent) ==
    IF indent = NoIndent THEN c
    ELSE LET i == PosOf(c.doc, c.last)
         IN [c EXCEPT !.doc = [c.doc EXCEPT ![i].indent = indent]]

insert_paragraph_after_i(c, text, style, indent) ==
    _set_left_indent(insert_paragraph_after(c, text, style), indent)

insert_paragraph_after_runs_i(c, runs, style, indent) ==
    _set_left_indent(insert_paragraph_after_runs(c, runs, style), indent)

\* insert_label_value: bold label + normal value on one line
insert_label_value(c, label, value, style, indent) ==
    insert_paragraph_after_runs_i(c, <<Run(label, TRUE), Run(value, FALSE)>>, style, indent)

-----------------------------------------------------------------------------
(* find_paragraph and clear_between *)

\* find_paragraph: index of the first paragraph whose trimmed text equals the
\* trimmed exact_text, 0 for None
find_paragraph(d, exact_text) ==
    LET hits == {i \in 1..Len(d) : Strip(ParaText(d[i])) = Strip(exact_text)}
    IN IF hits = {} THEN 0 ELSE CHOOSE i \in hits : \A j \in hits : i <= j

\* the loop of clear_between: index of the paragraph at which it breaks, that
\* is the first one after index s whose trimmed text is in stop_heading_texts
\* (which are compared as given); Len(d) + 1 when the loop runs to the end
StopIndex(d, s, stop_heading_texts) ==
    LET hits == {i \in (s + 1)..Len(d) : Strip(ParaText(d[i])) \in stop_heading_texts}
    IN IF hits = {} THEN Len(d) + 1 ELSE CHOOSE i \in hits : \A j \in hits : i <= j

\* a clear_between that appends the paragraph to to_delete before it tests for
\* the stop heading
ToDeleteThroughStop(d, s, stop_heading_texts) ==
    {i \in 1..Len(d) : s < i /\ i <= StopIndex(d, s, stop_heading_texts)}

\* to_delete of clear_between, as indexes of d
ToDelete(d, s, stop_heading_texts) ==
    {i \in 1..Len(d) : s < i /\ i < StopIndex(d, s, stop_heading_texts)}

\* clear_between(doc, start_heading_text, stop_heading_texts): raised is TRUE for
\* the two ValueErrors; anchor is the identity of the paragraph returned
clear_between(d, start_heading_text, stop_heading_texts) ==
    LET s == find_paragraph(d, start_heading_text)
    IN IF s = 0
       THEN [raised |-> TRUE, doc |-> d, deleted |-> <<>>, anchor |-> 0]
       ELSE LET to_delete == Keep(d, {d[i].id : i \in ToDelete(d, s, stop_heading_texts)})
                d2 == DeleteAll(d, to_delete)
                s2 == find_paragraph(d2, start_heading_text)
            IN IF s2 = 0
               THEN [raised |-> TRUE, doc |-> d2, deleted |-> to_delete, anchor |-> 0]
               ELSE [raised |-> FALSE, doc |-> d2, deleted |-> to_delete,
                     anchor |-> d2[s2].id]

-----------------------------------------------------------------------------
(* Values read from the YAML record *)

NONE == <<"(None)">>      \* Python's None where a text is expected
NA == <<"N/A">>

\* "x or ''" for a text x
OrEmpty(v) == IF v = NONE THEN <<>> ELSE v

\* truth value of a text
Truthy(v) == v # NONE /\ v # <<>>

\* dict.get(key, default) on a record r whose present keys are r.has
Get(r, key, default) == IF key \in r.has THEN r[key] ELSE default

\* Python's None where a dict is expected: "x or {}" reads it as the empty
\* dict, and None itself has no get()
NoneDict == [has |-> {}, null |-> TRUE]
IsNone(r) == "null" \in DOMAIN r

-----------------------------------------------------------------------------
(* Content-to-paragraphs expansion and the label/value block *)

\* the loop of insert_content_parsed with bullet_text = stripped[1:], the
\* strip() forgotten
RECURSIVE ContentLinesRawBullet(_, _, _, _)
ContentLinesRawBullet(c, lines, style, indent) ==
    IF lines = <<>> THEN c
    ELSE LET line == RStrip(Head(lines))
             stripped == LStrip(line)
         IN IF line = <<>> THEN ContentLinesRawBullet(c, Tail(lines), style, indent)
            ELSE IF StartsWith(stripped, <<DASH>>)
            THEN ContentLinesRawBullet(
                     insert_paragraph_after_i(
                         c, <<BULLET, SP>> \o Tail(stripped), style, indent),
                     Tail(lines), style, indent)
            ELSE ContentLinesRawBullet(
                     insert_paragraph_after_i(c, Strip(line), style, indent),
                     Tail(lines), style, indent)

\* the loop of insert_content_parsed over c.splitlines()
RECURSIVE ContentLines(_, _, _, _)
ContentLines(c, lines, style, indent) ==
    IF lines = <<>> THEN c
    ELSE LET line == RStrip(Head(lines))
             stripped == LStrip(line)
         IN IF line = <<>> THEN ContentLines(c, Tail(lines), style, indent)
            ELSE IF StartsWith(stripped, <<DASH>>)
            THEN ContentLines(
                     insert_paragraph_after_i(
                         c, <<BULLET, SP>> \o Strip(Tail(stripped)), style, indent),
                     Tail(lines), style, indent)
            ELSE ContentLines(
                     insert_paragraph_after_i(c, Strip(line), style, indent),
                     Tail(lines), style, indent)

\* insert_content_parsed that tests "if not c" instead of "if not c.strip()"
insert_content_parsed_EmptyOnly(c, content, style, indent) ==
    LET cc == StripNL(ReplaceCRLF(OrEmpty(content)))
    IN IF cc = <<>>
       THEN insert_paragraph_after_i(c, NA, style, indent)
       ELSE ContentLines(c, SplitLines(cc), style, indent)

\* insert_content_parsed(anchor, content, style, left_indent_in)
insert_content_parsed(c, content, style, indent) ==
    LET cc == StripNL(ReplaceCRLF(OrEmpty(content)))
    IN IF Strip(cc) = <<>>
       THEN insert_paragraph_after_i(c, NA, style, indent)
       ELSE ContentLines(c, SplitLines(cc), style, indent)

\* insert_label_value_block whose simple_one_liner tests the newline only
insert_label_value_block_NoBulletTest(c, label, value, style, indent) ==
    LET v == StripNL(OrEmpty(value))
        simple_one_liner == ~Contains(v, NL)
    IN IF Strip(v) = <<>>
       THEN insert_label_value(c, label, <<SP>> \o NA, style, indent)
       ELSE IF simple_one_liner
       THEN insert_label_value(c, label, IF v # <<>> THEN <<SP>> \o v ELSE <<>>, style, indent)
       ELSE insert_content_parsed(
                insert_paragraph_after_runs_i(c, <<Run(label, TRUE)>>, style, indent),
                v, style, indent)

\* insert_label_value_block(anchor, label, value, style, left_indent_in)
insert_label_value_block(c, label, value, style, indent) ==
    LET v == StripNL(OrEmpty(value))
        simple_one_liner == ~Contains(v, NL) /\ ~StartsWith(LStrip(v), <<DASH>>)
    IN IF Strip(v) = <<>>
       THEN insert_label_value(c, label, <<SP>> \o NA, style, indent)
       ELSE IF simple_one_liner
       THEN insert_label_value(c, label, IF v # <<>> THEN <<SP>> \o v ELSE <<>>, style, indent)
       ELSE insert_content_parsed(
                insert_paragraph_after_runs_i(c, <<Run(label, TRUE)>>, style, indent),
                v, style, indent)

-----------------------------------------------------------------------------
(* main: one entry of execution_output *)

ListParagraph == "List Paragraph"

\* an entry of execution_output: a dict (kind "dict", present keys in has) or
\* a scalar (kind "scalar", its str() in content)
ExecDict(has, summary, content, description, bullets, order) ==
    [kind |-> "dict", has |-> has, summary |-> summary, content |-> content,
     description |-> description, bullets |-> bullets, order |-> order]

RECURSIVE DashAll(_)
DashAll(bullets) ==
    IF bullets = <<>> THEN <<>>
    ELSE <<<<DASH, SP>> \o Head(bullets)>> \o DashAll(Tail(bullets))

\* main, the legacy branch: content from description, bullets and order
LegacyContent(item) ==
    LET description == Get(item, "description", <<>>)
        bullets == Get(item, "bullets", <<>>)
        order == Get(item, "order", "bullets_first")
        desc == IF Truthy(description) THEN <<description>> ELSE <<>>
    IN IF order = "description_first"
       THEN JoinNL(desc \o DashAll(bullets))
       ELSE JoinNL(DashAll(bullets) \o desc)

\* main: summary and content of an entry
ExecSummary(item) ==
    IF item.kind = "dict" THEN Get(item, "summary", <<>>) ELSE <<>>

ExecContent(item) ==
    LET content == IF item.kind = "dict" THEN Get(item, "content", <<>>)
                   ELSE item.content
    IN IF ~Truthy(content) /\ item.kind = "dict" THEN LegacyContent(item)
       ELSE content

\* main: the loop over c.splitlines() written inline in the execution step
RECURSIVE ExecContentLines(_, _)
ExecContentLines(c, lines) ==
    IF lines = <<>> THEN c
    ELSE LET line == RStrip(Head(lines))
             stripped == LStrip(line)
         IN IF line = <<>> THEN ExecContentLines(c, Tail(lines))
            ELSE IF StartsWith(stripped, <<DASH>>)
            THEN ExecContentLines(
                     insert_paragraph_after(
                         c, <<BULLET, SP>> \o Strip(Tail(stripped)), ListParagraph),
                     Tail(lines))
            ELSE ExecContentLines(
                     insert_paragraph_after(c, Strip(line), ListParagraph),
                     Tail(lines))

\* main: the expansion of an entry's content written inline: "N/A" for a
\* blank content, and then the loop in any case
ExecExpand(c, content) ==
    LET cc == StripNL(ReplaceCRLF(OrEmpty(content)))
        c1 == IF Strip(cc) = <<>> THEN insert_paragraph_after(c, NA, ListParagraph)
              ELSE c
    IN ExecContentLines(c1, SplitLines(cc))

\* the loop body without the bold summary line
ExecItemNoSummary(c, item, idx, n) ==
    LET summary == ExecSummary(item)
        content == ExecContent(item)
    IN IF Truthy(summary) \/ Truthy(content)
       THEN LET c2 == ExecExpand(c, content)
            IN IF idx < n - 1 THEN insert_paragraph_after(c2, <<>>, ListParagraph)
               ELSE c2
       ELSE c

\* main: the body of the loop over exec_items for entry idx (from 0) of n
ExecItem(c, item, idx, n) ==
    LET summary == ExecSummary(item)
        content == ExecContent(item)
    IN IF Truthy(summary) \/ Truthy(content)
       THEN LET c1 == IF Truthy(summary)
                      THEN insert_paragraph_after_runs(
                               c, <<Run(summary, TRUE)>>, ListParagraph)
                      ELSE c
                c2 == ExecExpand(c1, content)
            IN IF idx < n - 1 THEN insert_paragraph_after(c2, <<>>, ListParagraph)
               ELSE c2
       ELSE c

-----------------------------------------------------------------------------
(* main: headings, header lines and the week range *)

H_OBJ == <<"Weekly Objective (One Sentence)">>
H_EXE == <<"Execution & Output">>
H_2X == <<"The 2X Transformation Log">>
H_AI == <<"AI Acceleration">>
H_SOP == <<"SOP & Process Solidification">>
H_FR == <<"Friction, Blockers & Ask">>
H_NW == <<"Next Week's Focus (Preview Only)">>

NamePrefix == <<"Name:", SP>>
RolePrefix == <<"Role:", SP>>
WeekPrefix == <<"Week:", SP>>

\* str() of a small positive integer
NumStr(n) == <<"1", "2", "3", "4", "5", "6", "7", "8", "9">>[n]

\* strftime('%Y-%m-%d') of day n, day 0 being Monday 2024-01-01
DateStr(n) ==
    <<"2024-01-01", "2024-01-02", "2024-01-03", "2024-01-04", "2024-01-05",
      "2024-01-06", "2024-01-07", "2024-01-08", "2024-01-09", "2024-01-10",
      "2024-01-11", "2024-01-12", "2024-01-13", "2024-01-14", "2024-01-15",
      "2024-01-16", "2024-01-17", "2024-01-18", "2024-01-19">>[n + 1]

\* datetime.weekday(): Monday is 0
Weekday(day) == day % 7

\* get_week_range with the weekday counted from Sunday
get_week_range_FromSunday(today) ==
    LET monday == today - ((today + 1) % 7)
        friday == monday + 4
    IN <<DateStr(monday), SP, "->", SP, DateStr(friday)>>

\* get_week_range(today)
get_week_range(today) ==
    LET monday == today - Weekday(today)
        friday == monday + 4
    IN <<DateStr(monday), SP, "->", SP, DateStr(friday)>>

\* str(value) in an f-string
Str(v) == IF v = NONE THEN <<"None">> ELSE v

\* set_line_value that writes the value without the prefix
set_line_value_NoPrefix(d, prefix, value) ==
    LET hits == {i \in 1..Len(d) : StartsWith(Strip(ParaText(d[i])), prefix)}
    IN IF hits = {} THEN [raised |-> TRUE, doc |-> d]
       ELSE LET i == CHOOSE i \in hits : \A j \in hits : i <= j
            IN [raised |-> FALSE,
                doc |-> [d EXCEPT ![i].runs = <<Run(Str(value), FALSE)>>]]

\* set_line_value(doc, prefix, value): raised is TRUE for the ValueError
set_line_value(d, prefix, value) ==
    LET hits == {i \in 1..Len(d) : StartsWith(Strip(ParaText(d[i])), prefix)}
    IN IF hits = {} THEN [raised |-> TRUE, doc |-> d]
       ELSE LET i == CHOOSE i \in hits : \A j \in hits : i <= j
            IN [raised |-> FALSE,
                doc |-> [d EXCEPT ![i].runs = <<Run(prefix \o Str(value), FALSE)>>]]

\* what a section of main leaves: the document, the next fresh identity, the
\* paragraphs it deleted, and whether it raised
Step(raised, d, n, gone) == [raised |-> raised, doc |-> d, nid |-> n, deleted |-> gone]

-----------------------------------------------------------------------------
(* main: the sections *)

FirstParagraph == "First Paragraph"
BodyText == "Body Text"
Normal == "Normal"
Indent == 25         \* indent_in = 0.25 inch, in hundredths

\* main: the weekly objective section
ObjectiveSection(d, n, rec) ==
    LET r == clear_between(d, H_OBJ, {H_EXE, H_2X})
        wo == Strip(OrEmpty(Get(rec, "weekly_objective", <<>>)))
        weekly_objective == IF wo = <<>> THEN NA ELSE wo
    IN IF r.raised THEN Step(TRUE, r.doc, n, r.deleted)
       ELSE LET obj_line == insert_paragraph_after(
                                Cursor(r.doc, r.anchor, n), weekly_objective, ListParagraph)
                spacer == insert_paragraph_after(obj_line, <<>>, ListParagraph)
            IN Step(FALSE, spacer.doc, spacer.nid, r.deleted)

\* main: the loop over exec_items
RECURSIVE ExecLoop(_, _, _, _)
ExecLoop(c, items, idx, n) ==
    IF idx >= n THEN c
    ELSE ExecLoop(ExecItem(c, items[idx + 1], idx, n), items, idx + 1, n)

\* main: the Execution & Output section
ExecutionSection(d, n, rec) ==
    LET r == clear_between(d, H_EXE, {H_2X})
        exec_items == Get(rec, "execution_output", <<>>)
    IN IF r.raised THEN Step(TRUE, r.doc, n, r.deleted)
       ELSE LET last == ExecLoop(Cursor(r.doc, r.anchor, n), exec_items, 0, Len(exec_items))
                spacer == insert_paragraph_after(last, <<>>, ListParagraph)
            IN Step(FALSE, spacer.doc, spacer.nid, r.deleted)

\* insert_label_value given a value that may be None: "if text:" drops the run
RunValue(v) == IF Truthy(v) THEN v ELSE <<>>

\* main: the body of the loop over tasks for task idx (from 0) of n
TaskItem(c, t, idx, n) ==
    LET style == IF idx = 0 THEN FirstParagraph ELSE BodyText
        c1 == insert_label_value(c, <<"Task", SP, NumStr(idx + 1), ":", SP>>,
                                 RunValue(Get(t, "task", <<>>)), style, Indent)
        c2 == insert_label_value(c1, <<"Tool / Agent:", SP>>,
                                 RunValue(Get(t, "tool_agent", <<>>)), style, Indent)
        c3 == insert_label_value(c2, <<"Time Saved (Est.):", SP>>,
                                 RunValue(Get(t, "time_saved", <<>>)), style, Indent)
        c4 == insert_paragraph_after_runs_i(
                  c3, <<Run(<<"Insight / Limitation:">>, TRUE)>>, style, Indent)
        c5 == insert_content_parsed(c4, Get(t, "insight_failure", <<>>), style, Indent)
    IN IF idx < n - 1 THEN insert_paragraph_after(c5, <<>>, style) ELSE c5

RECURSIVE TaskLoop(_, _, _, _)
TaskLoop(c, tasks, idx, n) ==
    IF idx >= n THEN c
    ELSE TaskLoop(TaskItem(c, tasks[idx + 1], idx, n), tasks, idx + 1, n)

\* main: the AI Acceleration section
AISection(d, n, rec) ==
    LET r == clear_between(d, H_AI, {H_SOP, H_FR})
        tasks == Get(Get(rec, "transformation_log", [has |-> {}]),
                     "ai_acceleration_tasks", <<>>)
    IN IF r.raised THEN Step(TRUE, r.doc, n, r.deleted)
       ELSE LET last == TaskLoop(Cursor(r.doc, r.anchor, n), tasks, 0, Len(tasks))
                spacer == insert_paragraph_after(last, <<>>, BodyText)
            IN Step(FALSE, spacer.doc, spacer.nid, r.deleted)

\* sop_items without the default entry for an empty input
SopItemsNoDefault(rec) ==
    LET sop_data == Get(rec, "sop_process_solidification", [has |-> {}])
        sop_items == Get(sop_data, "items", <<>>)
    IN IF sop_items # <<>> THEN sop_items
       ELSE IF "item" \in sop_data.has \/ "impact" \in sop_data.has
       THEN <<[has |-> {"item", "impact"},
               item |-> Get(sop_data, "item", <<"None">>),
               impact |-> Get(sop_data, "impact", NA)]>>
       ELSE <<>>

\* main: sop_items from sop_process_solidification, legacy and default
SopItems(rec) ==
    LET sop_data == Get(rec, "sop_process_solidification", [has |-> {}])
        sop_items == Get(sop_data, "items", <<>>)
    IN IF sop_items # <<>> THEN sop_items
       ELSE IF "item" \in sop_data.has \/ "impact" \in sop_data.has
       THEN <<[has |-> {"item", "impact"},
               item |-> Get(sop_data, "item", <<"None">>),
               impact |-> Get(sop_data, "impact", NA)]>>
       ELSE <<[has |-> {"item", "impact"}, item |-> <<"None">>, impact |-> NA]>>

\* main: the body of the loop over sop_items
SopItem(c, s, idx, n) ==
    LET c1 == insert_label_value(c, <<"Item:", SP>>,
                                 RunValue(Get(s, "item", <<"None">>)), Normal, Indent)
        c2 == insert_label_value_block(c1, <<"Impact:">>, Get(s, "impact", NA), Normal, Indent)
    IN IF idx < n - 1 THEN insert_paragraph_after(c2, <<>>, Normal) ELSE c2

RECURSIVE SopLoop(_, _, _, _)
SopLoop(c, items, idx, n) ==
    IF idx >= n THEN c
    ELSE SopLoop(SopItem(c, items[idx + 1], idx, n), items, idx + 1, n)

\* main: the SOP section, skipped when its heading is not found
SopSection(d, n, rec) ==
    LET sop_items == SopItems(rec)
        sop_anchor == find_paragraph(d, H_SOP)
    IN IF sop_anchor = 0 THEN Step(FALSE, d, n, <<>>)
       ELSE LET r == clear_between(d, H_SOP, {H_FR, H_NW \o <<SP>>, H_NW})
            IN IF r.raised THEN Step(TRUE, r.doc, n, r.deleted)
               ELSE LET last == SopLoop(Cursor(r.doc, d[sop_anchor].id, n),
                                        sop_items, 0, Len(sop_items))
                        spacer == insert_paragraph_after(last, <<>>, Normal)
                    IN Step(FALSE, spacer.doc, spacer.nid, r.deleted)

\* main: the body of the loop over fr_items for entry idx (from 1) of n
FrictionItem(c, item, idx, n) ==
    LET friction == IF item.kind = "dict" THEN Get(item, "friction", <<>>) ELSE item.friction
        action == IF item.kind = "dict" THEN Get(item, "action_mitigation", <<>>) ELSE <<>>
        ask == IF item.kind = "dict" THEN Get(item, "ask_attention_needed", <<>>) ELSE <<>>
    IN IF Truthy(friction) \/ Truthy(action) \/ Truthy(ask)
       THEN LET f == Strip(OrEmpty(friction))
                fr_value == IF f = <<>> THEN NA ELSE f
                c1 == insert_label_value(c, <<"Friction", SP, NumStr(idx), ":", SP>>,
                                         fr_value, Normal, Indent)
                c2 == insert_label_value_block(c1, <<"Action/Mitigation:">>, action,
                                               Normal, Indent)
                c3 == insert_label_value_block(c2, <<"Ask/Attention needed:">>, ask,
                                               Normal, Indent)
            IN IF idx < n THEN insert_paragraph_after(c3, <<>>, Normal) ELSE c3
       ELSE c

RECURSIVE FrictionLoop(_, _, _, _)
FrictionLoop(c, items, idx, n) ==
    IF idx > n THEN c
    ELSE FrictionLoop(FrictionItem(c, items[idx], idx, n), items, idx + 1, n)

\* main: the friction section
FrictionSection(d, n, rec) ==
    LET r == clear_between(d, H_FR, {H_NW \o <<SP>>, H_NW})
        fr_items == Get(rec, "friction_blockers_ask", <<>>)
    IN IF r.raised THEN Step(TRUE, r.doc, n, r.deleted)
       ELSE LET last == FrictionLoop(Cursor(r.doc, r.anchor, n), fr_items, 1, Len(fr_items))
                spacer == insert_paragraph_after(last, <<>>, Normal)
            IN Step(FALSE, spacer.doc, spacer.nid, r.deleted)

RECURSIVE FocusLoop(_, _, _)
FocusLoop(c, lines, i) ==
    IF i > Len(lines) THEN c
    ELSE FocusLoop(insert_label_value(c, <<"Focus", SP, NumStr(i), ":", SP>>,
                                      RunValue(lines[i]), Normal, Indent),
                   lines, i + 1)

\* a focus section that leaves the paragraphs after its heading in place
FocusSectionKeepTail(d, n, rec) ==
    LET first == find_paragraph(d, H_NW \o <<SP>>)
        nw_anchor == IF first # 0 THEN first ELSE find_paragraph(d, H_NW)
        focus_lines == Get(rec, "next_week_focus", <<>>)
    IN IF nw_anchor = 0 THEN Step(FALSE, d, n, <<>>)
       ELSE LET last == FocusLoop(Cursor(d, d[nw_anchor].id, n), focus_lines, 1)
            IN Step(FALSE, last.doc, last.nid, <<>>)

\* main: the next-week focus section, skipped when its heading is not found
FocusSection(d, n, rec) ==
    LET first == find_paragraph(d, H_NW \o <<SP>>)
        nw_anchor == IF first # 0 THEN first ELSE find_paragraph(d, H_NW)
        focus_lines == Get(rec, "next_week_focus", <<>>)
    IN IF nw_anchor = 0 THEN Step(FALSE, d, n, <<>>)
       ELSE LET to_delete == SubSeq(d, nw_anchor + 1, Len(d))
                last == FocusLoop(Cursor(DeleteAll(d, to_delete), d[nw_anchor].id, n),
                                  focus_lines, 1)
            IN Step(FALSE, last.doc, last.nid, to_delete)

\* a main that goes on after a step raised
NextPcSwallow(raised, next) == next

\* an exception raised in main propagates: no later statement runs
NextPc(raised, next) == IF raised THEN "error" ELSE next

-----------------------------------------------------------------------------
(* app.py: the normalizers of the fields read back from a YAML record *)

\* a raw field value as yaml.safe_load gives it: None, an int, a str, a list
\* of entries or a dict (a record with its present keys in has)
RawNone == [kind |-> "none"]
RawInt(n) == [kind |-> "int", n |-> n]
RawStr(t) == [kind |-> "str", text |-> t]
RawList(s) == [kind |-> "list", items |-> s]
RawDict(r) == [kind |-> "dict", dict |-> r]

\* "not raw"
Falsy(raw) ==
    CASE raw.kind = "none" -> TRUE
      [] raw.kind = "int" -> raw.n = 0
      [] raw.kind = "str" -> raw.text = <<>>
      [] raw.kind = "list" -> raw.items = <<>>
      [] raw.kind = "dict" -> raw.dict.has = {}

\* an entry that is not a dict, held as "str(item) if item else ''"
Scalar(t) == [kind |-> "scalar", content |-> t]

\* isinstance(x, dict)
IsDict(x) == "has" \in DOMAIN x

\* the keys of a dict in a row; the dicts iterated here have one key at most
RECURSIVE KeysOf(_)
KeysOf(S) ==
    IF S = {} THEN <<>>
    ELSE LET k == CHOOSE k \in S : TRUE IN <<Scalar(<<k>>)>> \o KeysOf(S \ {k})

\* "for item in raw": the entries of a list, the characters of a str, the
\* keys of a dict; an int is not iterable (TypeError)
Iterable(raw) == raw.kind \in {"list", "str", "dict"}
Items(raw) ==
    CASE raw.kind = "list" -> raw.items
      [] raw.kind = "str" -> [i \in 1..Len(raw.text) |-> Scalar(<<raw.text[i]>>)]
      [] raw.kind = "dict" -> KeysOf(raw.dict.has)

\* what a function leaves: its value, or raised for an exception
Ok(v) == [raised |-> FALSE, out |-> v]
Raised == [raised |-> TRUE, out |-> <<>>]

\* _content_from_legacy_execution(item): None has no strip()
_content_from_legacy_execution(item) ==
    LET d == Get(item, "description", <<>>)
        description == Strip(d)
        bullets == Get(item, "bullets", <<>>)
        order == Get(item, "order", "bullets_first")
        desc == IF description # <<>> THEN <<description>> ELSE <<>>
    IN IF d = NONE THEN Raised
       ELSE IF order = "description_first"
       THEN Ok(JoinNL(desc \o DashAll(bullets)))
       ELSE Ok(JoinNL(DashAll(bullets) \o desc))

ExecPlaceholder == ExecDict({"summary", "content"}, <<>>, <<>>, <<>>, <<>>, "")

\* the loop of _normalize_execution_output over the entries
RECURSIVE ExecOut(_)
ExecOut(items) ==
    IF items = <<>> THEN Ok(<<>>)
    ELSE LET item == Head(items)
             content == IF ~IsDict(item) THEN Ok(item.content)
                        ELSE IF "content" \in item.has THEN Ok(item.content)
                        ELSE _content_from_legacy_execution(item)
             summary == IF IsDict(item) THEN Get(item, "summary", <<>>) ELSE <<>>
             rest == ExecOut(Tail(items))
         IN IF content.raised \/ rest.raised THEN Raised
            ELSE Ok(<<ExecDict({"summary", "content"}, summary, content.out, <<>>, <<>>, "")>>
                    \o rest.out)

\* _normalize_execution_output(raw)
_normalize_execution_output(raw) ==
    IF Falsy(raw) THEN Ok(<<ExecPlaceholder>>)
    ELSE IF ~Iterable(raw) THEN Raised
    ELSE LET out == ExecOut(Items(raw))
         IN IF out.raised THEN Raised
            ELSE IF out.out # <<>> THEN out ELSE Ok(<<ExecPlaceholder>>)

SopEntry(item, impact) == [has |-> {"item", "impact"}, item |-> item, impact |-> impact]
SopDefault == SopEntry(<<"None">>, NA)

\* the loop of _normalize_sop_items over the items
RECURSIVE SopOut(_)
SopOut(items) ==
    IF items = <<>> THEN <<>>
    ELSE LET x == Head(items)
         IN <<IF IsDict(x) THEN SopEntry(Get(x, "item", <<"None">>), Get(x, "impact", NA))
              ELSE SopDefault>> \o SopOut(Tail(items))

\* _normalize_sop_items that gives no entry for an empty input
_normalize_sop_items_Empty(raw) ==
    IF Falsy(raw) THEN Ok(<<>>)
    ELSE IF raw.kind # "dict" THEN Raised
    ELSE LET items == Get(raw.dict, "items", <<>>)
         IN IF items # <<>> THEN Ok(SopOut(items))
            ELSE Ok(<<SopEntry(Get(raw.dict, "item", <<"None">>), Get(raw.dict, "impact", NA))>>)

\* _normalize_sop_items(raw): raw.get exists on a dict only (AttributeError)
_normalize_sop_items(raw) ==
    IF Falsy(raw) THEN Ok(<<SopDefault>>)
    ELSE IF raw.kind # "dict" THEN Raised
    ELSE LET items == Get(raw.dict, "items", <<>>)
         IN IF items # <<>> THEN Ok(SopOut(items))
            ELSE Ok(<<SopEntry(Get(raw.dict, "item", <<"None">>), Get(raw.dict, "impact", NA))>>)

FrictionDict(friction, action, ask) ==
    [kind |-> "dict", has |-> {"friction", "action_mitigation", "ask_attention_needed"},
     friction |-> friction, action_mitigation |-> action, ask_attention_needed |-> ask]

FrictionPlaceholder == FrictionDict(<<>>, <<>>, <<>>)

\* the loop of _normalize_friction_items over the entries
RECURSIVE FrictionOut(_)
FrictionOut(items) ==
    IF items = <<>> THEN <<>>
    ELSE LET item == Head(items)
         IN <<IF IsDict(item)
              THEN FrictionDict(Get(item, "friction", <<>>),
                                Get(item, "action_mitigation", <<>>),
                                Get(item, "ask_attention_needed", <<>>))
              ELSE FrictionDict(item.content, <<>>, <<>>)>> \o FrictionOut(Tail(items))

\* _normalize_friction_items(raw)
_normalize_friction_items(raw) ==
    IF Falsy(raw) THEN Ok(<<FrictionPlaceholder>>)
    ELSE IF ~Iterable(raw) THEN Raised
    ELSE LET out == FrictionOut(Items(raw))
         IN IF out # <<>> THEN Ok(out) ELSE Ok(<<FrictionPlaceholder>>)

\* the i-th value of a list that form.getlist returned, "" past its end
ListAt(s, i) == IF i <= Len(s) THEN s[i] ELSE <<>>

Max(a, b) == IF a >= b THEN a ELSE b

\* the loop of _parse_execution_form: the rows from i to n that are not blank
RECURSIVE ParseExecRows(_, _, _, _)
ParseExecRows(summaries, contents, i, n) ==
    IF i > n THEN <<>>
    ELSE LET summary == Strip(ListAt(summaries, i))
             content == Strip(ListAt(contents, i))
             rest == ParseExecRows(summaries, contents, i + 1, n)
         IN IF summary # <<>> \/ content # <<>>
            THEN <<ExecDict({"summary", "content"}, summary, content, <<>>, <<>>, "")>> \o rest
            ELSE rest

\* _parse_execution_form(form), on the lists execution_summary[] and
\* execution_content[] of the form
_parse_execution_form(summaries, contents) ==
    LET n == Max(Max(Len(summaries), Len(contents)), 1)
        out == ParseExecRows(summaries, contents, 1, n)
    IN IF out # <<>> THEN out ELSE <<ExecPlaceholder>>

\* the loop of _parse_sop_form: every row, blank fields replaced
RECURSIVE ParseSopRows(_, _, _, _)
ParseSopRows(items, impacts, i, n) ==
    IF i > n THEN <<>>
    ELSE LET it == Strip(ListAt(items, i))
             im == Strip(ListAt(impacts, i))
         IN <<SopEntry(IF it # <<>> THEN it ELSE <<"None">>, IF im # <<>> THEN im ELSE NA)>>
            \o ParseSopRows(items, impacts, i + 1, n)

\* _parse_sop_form(form), on the lists sop_item[] and sop_impact[]
_parse_sop_form(items, impacts) ==
    LET n == Max(Max(Len(items), Len(impacts)), 1)
        out == ParseSopRows(items, impacts, 1, n)
    IN IF out # <<>> THEN out ELSE <<SopDefault>>

\* the loop of _parse_friction_form: the rows that are not blank
RECURSIVE ParseFrictionRows(_, _, _, _, _)
ParseFrictionRows(frictions, actions, asks, i, n) ==
    IF i > n THEN <<>>
    ELSE LET friction == Strip(ListAt(frictions, i))
             action == Strip(ListAt(actions, i))
             ask == Strip(ListAt(asks, i))
             rest == ParseFrictionRows(frictions, actions, asks, i + 1, n)
         IN IF friction # <<>> \/ action # <<>> \/ ask # <<>>
            THEN <<FrictionDict(friction, action, ask)>> \o rest
            ELSE rest

\* _parse_friction_form(form), on the lists friction_friction[],
\* friction_action_mitigation[] and friction_ask_attention[]
_parse_friction_form(frictions, actions, asks) ==
    LET n == Max(Max(Max(Len(frictions), Len(actions)), Len(asks)), 1)
        out == ParseFrictionRows(frictions, actions, asks, 1, n)
    IN IF out # <<>> THEN out ELSE <<FrictionPlaceholder>>

-----------------------------------------------------------------------------
(* Idle values of the variables an entry point does not use *)

NoDoc == <<>>
NoData == [none |-> TRUE]

BulletAlphabet == {"a", ".", DASH, SP, NL, CR}

-----------------------------------------------------------------------------
(* Specification SpecBullets: _normalize_inline_bullets applied twice *)

InitBullets ==
    /\ mode = "bullets"
    /\ pc = "call"
    /\ arg \in SeqsUpTo(BulletAlphabet, MaxTextLen)
    /\ res = <<>>
    /\ doc = NoDoc /\ tmpl = NoDoc /\ nid = 0 /\ data = NoData
    /\ output = <<>> /\ deleted = <<>>
    /\ files = {} /\ cleanup_paths = <<>>

NormalizeOnce ==
    /\ mode = "bullets" /\ pc = "call"
    /\ res' = <<_normalize_inline_bullets(arg)>>
    /\ pc' = "once"
    /\ UNCHANGED <<mode, doc, nid, tmpl, data, output, deleted, arg, files, cleanup_paths>>

NormalizeAgain ==
    /\ mode = "bullets" /\ pc = "once"
    /\ res' = Append(res, _normalize_inline_bullets(res[1]))
    /\ pc' = "twice"
    /\ UNCHANGED <<mode, doc, nid, tmpl, data, output, deleted, arg, files, cleanup_paths>>

NextBullets == NormalizeOnce \/ NormalizeAgain

SpecBullets == InitBullets /\ [][NextBullets]_vars

\* C7: for every marked text t, normalizing the inline bullets of an already
\* normalized text changes nothing: f(f(t)) = f(t).
BulletsIdempotent == (mode = "bullets" /\ pc = "twice") => res[2] = res[1]

-----------------------------------------------------------------------------
(* Specification SpecClear: one call of clear_between on any small document *)

ClearTexts == {<<"A">>, <<"A", SP>>, <<"B">>, <<SP, "B">>, <<"x">>}
ClearStarts == {<<"A", SP>>}     \* given with a trailing space, as main gives the focus heading
ClearStops == {<<"B">>, <<"B", SP>>, <<"x">>}

\* the document whose paragraphs have the given texts, identities 1, 2, ...
DocOfTexts(ts) ==
    [i \in 1..Len(ts) |-> Para(i, <<Run(ts[i], FALSE)>>, NoStyle, NoIndent)]

InitClear ==
    /\ mode = "clear"
    /\ pc = "call"
    /\ \E ts \in SeqsUpTo(ClearTexts, MaxDocLen) :
          /\ doc = DocOfTexts(ts)
          /\ tmpl = doc
          /\ nid = Len(ts) + 1
    /\ \E start \in ClearStarts, stops \in SUBSET ClearStops :
          arg = [start |-> start, stops |-> stops]
    /\ res = <<>>
    /\ data = NoData /\ output = <<>> /\ deleted = <<>>
    /\ files = {} /\ cleanup_paths = <<>>

ClearBetweenCall ==
    /\ mode = "clear" /\ pc = "call"
    /\ LET r == clear_between(doc, arg.start, arg.stops)
       IN /\ doc' = r.doc
          /\ deleted' = r.deleted
          /\ res' = <<r.anchor>>
          /\ pc' = IF r.raised THEN "raised" ELSE "returned"
    /\ UNCHANGED <<mode, nid, tmpl, data, output, arg, files, cleanup_paths>>

NextClear == ClearBetweenCall

SpecClear == InitClear /\ [][NextClear]_vars

\* index in the document before the call of the start-heading paragraph
StartIdx == find_paragraph(tmpl, arg.start)

\* index in the document before the call of the first paragraph after the
\* start heading whose trimmed text is one of the stops; Len + 1 if none
FirstStopIdx ==
    IF \E j \in (StartIdx + 1)..Len(tmpl) : Strip(ParaText(tmpl[j])) \in arg.stops
    THEN CHOOSE j \in (StartIdx + 1)..Len(tmpl) :
            /\ Strip(ParaText(tmpl[j])) \in arg.stops
            /\ \A k \in (StartIdx + 1)..(j - 1) : Strip(ParaText(tmpl[k])) \notin arg.stops
    ELSE Len(tmpl) + 1

\* C1: a call of clear_between on a document that holds the start heading
\* removes only paragraphs strictly between the start heading and the first
\* later stop heading; the start heading, that stop heading and every
\* paragraph before the start or from the stop on are still there, in the
\* same order, each unchanged, and nothing else is in the document.
ClearBetweenFrame ==
    (mode = "clear" /\ pc # "call" /\ StartIdx # 0) =>
        /\ pc = "returned"
        /\ \A i \in 1..Len(tmpl) :
              (tmpl[i].id \notin Ids(doc)) => (StartIdx < i /\ i < FirstStopIdx)
        /\ \A i \in 1..Len(tmpl) :
              (i <= StartIdx \/ i >= FirstStopIdx) => (\E j \in 1..Len(doc) : doc[j] = tmpl[i])
        /\ doc = Keep(tmpl, Ids(doc))
        /\ res[1] = tmpl[StartIdx].id

\* C1 witness: a call that deleted a paragraph and kept a start heading, a
\* stop heading and a paragraph after the stop heading
ClearBetweenFrameWitness ==
    /\ mode = "clear" /\ pc = "returned"
    /\ deleted # <<>>
    /\ FirstStopIdx < Len(tmpl)
    /\ StartIdx > 1

\* C4: when stop headings are configured, the deletion does not run to the
\* end of the document: the last paragraph of the document is not deleted.
ClearStopsBeforeEnd ==
    (mode = "clear" /\ pc = "returned" /\ arg.stops # {} /\ deleted # <<>>) =>
        Last(tmpl).id \in Ids(doc)

-----------------------------------------------------------------------------
(* Specification SpecContent: the expansion primitives, each called once on *)
(* a document <<anchor, tail>> with the cursor on the anchor                *)

ImpactLabel == <<"Impact:">>

ContentAlphabet == {"a", DASH, SP, NL, CR}
Contents == SeqsUpTo(ContentAlphabet, MaxContentLen) \cup {NONE}

InitContent ==
    /\ mode = "content"
    /\ pc = "call"
    /\ doc = DocOfTexts(<<<<"H">>, <<"T">>>>)
    /\ tmpl = doc
    /\ nid = 3
    /\ arg \in Contents
    /\ res = <<>>
    /\ data = NoData /\ output = <<>> /\ deleted = <<>>
    /\ files = {} /\ cleanup_paths = <<>>

\* the variables take the cursor an insert function leaves
Returned(c, at) ==
    /\ doc' = c.doc
    /\ nid' = c.nid
    /\ res' = <<c.last>>
    /\ pc' = at
    /\ UNCHANGED <<mode, tmpl, output, deleted, arg, files, cleanup_paths>>

InsertContentParsedCall ==
    /\ mode = "content" /\ pc = "call"
    /\ Returned(insert_content_parsed(Cursor(doc, doc[1].id, nid), arg, Normal, Indent),
                "parsed")
    /\ UNCHANGED data

InsertLabelValueBlockCall ==
    /\ mode = "content" /\ pc = "call"
    /\ Returned(insert_label_value_block(
                    Cursor(doc, doc[1].id, nid), ImpactLabel, arg, Normal, Indent),
                "block")
    /\ UNCHANGED data

\* the execution step's loop body on a list of one entry {summary, content}
ExecItemCall ==
    /\ mode = "content" /\ pc = "call"
    /\ \E summary \in {<<>>, <<"s">>} :
          LET item == ExecDict({"summary", "content"}, summary, arg, <<>>, <<>>, "")
          IN /\ data' = item
             /\ Returned(ExecItem(Cursor(doc, doc[1].id, nid), item, 0, 1), "exec")

NextContent == InsertContentParsedCall \/ InsertLabelValueBlockCall \/ ExecItemCall

SpecContent == InitContent /\ [][NextContent]_vars

\* what the claims call a line, a non-blank line and its paragraph text
NonBlankLine(l) == Strip(l) # <<>>
ClaimLines(t) == SelectSeq(SplitLines(OrEmpty(t)), NonBlankLine)
ClaimLineText(l) ==
    IF Head(LStrip(l)) = DASH THEN <<BULLET, SP>> \o Strip(Tail(LStrip(l)))
    ELSE Strip(l)
BlankValue(t) == Strip(OrEmpty(t)) = <<>>

\* the paragraphs between the anchor and the tail after the call
Inserted == SubSeq(doc, 2, Len(doc) - 1)
AnchorAndTailKept == Len(doc) >= 2 /\ doc[1] = tmpl[1] /\ Last(doc) = tmpl[2]

\* the paragraphs are fresh, one per given text in order, styled and indented
ParasAre(ps, texts, indent) ==
    /\ Len(ps) = Len(texts)
    /\ \A k \in 1..Len(ps) :
          /\ ParaText(ps[k]) = texts[k]
          /\ ps[k].id \notin Ids(tmpl)
          /\ ps[k].indent = indent
    /\ \A j, k \in 1..Len(ps) : j # k => ps[j].id # ps[k].id

\* C8: for a marked text with at least one non-blank line, insert_content_parsed
\* inserts one paragraph per non-blank line, in source order, right after the
\* anchor and before what followed it; a line whose first non-whitespace
\* character is "-" reads bullet glyph, space, the rest stripped; any other
\* line reads its stripped text; the paragraph returned is the last inserted.
ContentExpansion ==
    (mode = "content" /\ pc = "parsed" /\ ClaimLines(arg) # <<>>) =>
        /\ AnchorAndTailKept
        /\ ParasAre(Inserted,
                    [k \in 1..Len(ClaimLines(arg)) |-> ClaimLineText(ClaimLines(arg)[k])],
                    Indent)
        /\ res[1] = Last(Inserted).id

\* C8 witness: a text with a blank line, a bullet line and a plain line
ContentExpansionWitness ==
    /\ mode = "content" /\ pc = "parsed"
    /\ Len(SplitLines(OrEmpty(arg))) > Len(ClaimLines(arg))
    /\ \E j, k \in 1..Len(ClaimLines(arg)) :
          /\ Head(LStrip(ClaimLines(arg)[j])) = DASH
          /\ Head(LStrip(ClaimLines(arg)[k])) # DASH
    /\ Len(Inserted) = 2

\* the paragraphs the content expansion of the execution entry inserted: all
\* but the bold summary line
ExecExpansionParas ==
    IF Truthy(data.summary) THEN SubSeq(doc, 3, Len(doc) - 1) ELSE Inserted

EmbeddedNewline(t) ==
    \E i, j, k \in 1..Len(t) : i < j /\ j < k /\ t[i] # NL /\ t[j] = NL /\ t[k] # NL
StartsWithBullet(t) == StartsWith(LStrip(t), <<DASH>>)

\* C10: insert_label_value_block inserts, for a blank value, the one line
\* label + " N/A"; for a value with no embedded newline that does not start
\* with a bullet marker, the one line bold label + " " + value; otherwise a
\* line holding only the bold label and then the expansion of the value; each
\* inserted paragraph carries the left indent given.
LabelValuePolicy ==
    (mode = "content" /\ pc = "block") =>
        LET value == OrEmpty(arg)
        IN /\ AnchorAndTailKept
           /\ \A k \in 1..Len(Inserted) : Inserted[k].indent = Indent
           /\ res[1] = Last(Inserted).id
           /\ IF BlankValue(arg)
              THEN /\ Len(Inserted) = 1
                   /\ Inserted[1].runs = <<Run(ImpactLabel, TRUE), Run(<<SP>> \o NA, FALSE)>>
              ELSE IF ~EmbeddedNewline(value) /\ ~StartsWithBullet(value)
              THEN /\ Len(Inserted) = 1
                   /\ Inserted[1].runs =
                          <<Run(ImpactLabel, TRUE), Run(<<SP>> \o StripNL(value), FALSE)>>
              ELSE /\ Inserted[1].runs = <<Run(ImpactLabel, TRUE)>>
                   /\ ParasAre(Tail(Inserted),
                               [k \in 1..Len(ClaimLines(arg)) |->
                                   ClaimLineText(ClaimLines(arg)[k])],
                               Indent)

\* C10 witness: a value of two lines, the first a bullet: the label alone and
\* two more paragraphs
LabelValuePolicyWitness ==
    /\ mode = "content" /\ pc = "block"
    /\ EmbeddedNewline(OrEmpty(arg)) /\ StartsWithBullet(OrEmpty(arg))
    /\ Len(Inserted) = 3

-----------------------------------------------------------------------------
(* Specification Spec: one run of main, from the loaded template and record *)
(* to doc.save                                                              *)

\* the template: header lines, the section headings, one sample paragraph
\* under each heading; a paragraph's identity is its index here
BaseTexts ==
    << NamePrefix \o <<"x">>, RolePrefix \o <<"x">>, WeekPrefix \o <<"x">>,
       H_OBJ, <<"sample">>,
       H_EXE, <<"sample">>,
       H_2X,
       H_AI, <<"sample">>,
       H_SOP, <<"sample">>,
       H_FR, <<"sample">>,
       H_NW, <<"sample">> >>

BaseDoc == DocOfTexts(BaseTexts)

\* identity of the template paragraph that reads text
IdOf(text) == CHOOSE i \in 1..Len(BaseTexts) : BaseTexts[i] = text

NameId == IdOf(NamePrefix \o <<"x">>)
RoleId == IdOf(RolePrefix \o <<"x">>)
WeekId == IdOf(WeekPrefix \o <<"x">>)
ObjId == IdOf(H_OBJ)
ExeId == IdOf(H_EXE)
TwoXId == IdOf(H_2X)
AiId == IdOf(H_AI)
SopId == IdOf(H_SOP)
FrId == IdOf(H_FR)
NwId == IdOf(H_NW)

SectionHeadingIds == {ObjId, ExeId, AiId, SopId, FrId, NwId}
RequiredAnchorIds == {NameId, RoleId, WeekId} \cup SectionHeadingIds
AnchorIds == RequiredAnchorIds \cup {TwoXId}

\* the templates given to main: the whole one, and it without one anchor
Templates == {BaseDoc} \cup {Keep(BaseDoc, Ids(BaseDoc) \ {a}) : a \in AnchorIds}

\* entries of execution_output: canonical, empty placeholder, legacy
ExecEntries ==
    { ExecDict({"summary", "content"}, <<"s">>, <<DASH, SP, "a", NL, "b">>, <<>>, <<>>, ""),
      ExecDict({"summary", "content"}, <<>>, <<>>, <<>>, <<>>, ""),
      ExecDict({"summary", "description", "bullets", "order"}, <<"s">>, <<>>,
               <<"d">>, <<<<"b">>>>, "description_first") }

TaskEntry ==
    [has |-> {"task", "tool_agent", "time_saved", "insight_failure"},
     task |-> <<"t">>, tool_agent |-> <<"g">>, time_saved |-> <<>>,
     insight_failure |-> <<DASH, "i">>]

SopChoices ==
    { [has |-> {"items"},
       items |-> <<[has |-> {"item", "impact"}, item |-> <<"i">>,
                    impact |-> <<"a", NL, DASH, "b">>]>>],
      [has |-> {"item"}, item |-> <<"i">>] }

FrictionChoices ==
    { <<>>,
      <<FrictionDict(<<"f">>, <<"m">>, <<>>)>>,
      <<FrictionDict(<<>>, <<>>, <<>>), FrictionDict(<<>>, <<DASH, "m">>, <<"k">>)>> }

AllKeys ==
    {"name", "role", "week", "weekly_objective", "execution_output", "transformation_log",
     "sop_process_solidification", "friction_blockers_ask", "next_week_focus"}

\* the records given to main; the last one has no field at all
Records ==
    { [has |-> AllKeys, name |-> <<"n">>, role |-> <<"r">>, week |-> wk,
       weekly_objective |-> wo, execution_output |-> ex,
       transformation_log |-> [has |-> {"ai_acceleration_tasks"}, ai_acceleration_tasks |-> tk],
       sop_process_solidification |-> sop, friction_blockers_ask |-> fr,
       next_week_focus |-> nf] :
        wk \in {<<"w">>, <<SP>>},
        wo \in {<<>>, <<"o">>, H_EXE},
        ex \in SeqsUpTo(ExecEntries, MaxItems),
        tk \in {<<>>, <<TaskEntry, TaskEntry>>},
        sop \in SopChoices,
        fr \in FrictionChoices,
        nf \in {<<>>, <<<<"x">>, <<"y">>>>} }
    \cup {[has |-> {}]}

\* the days main may run on: a Wednesday and a Sunday
RenderDays == {2, 6}

WeekBlank(rec) == Strip(OrEmpty(Get(rec, "week", <<>>))) = <<>>

Init ==
    /\ mode = "render"
    /\ pc = "name"
    /\ tmpl \in Templates
    /\ doc = tmpl
    /\ nid = Len(BaseDoc) + 1
    /\ data \in Records
    /\ arg \in [today : IF WeekBlank(data) THEN RenderDays ELSE {0}]
    /\ res = <<>>
    /\ output = <<>>
    /\ deleted = <<>>
    /\ files = {} /\ cleanup_paths = <<>>

\* a header step: set_line_value on the document
HeaderStep(at, prefix, value, next) ==
    /\ mode = "render" /\ pc = at
    /\ LET r == set_line_value(doc, prefix, value)
       IN /\ doc' = r.doc
          /\ pc' = NextPc(r.raised, next)
          /\ res' = Append(res, IF r.raised THEN "raise" ELSE at)
    /\ UNCHANGED <<mode, nid, tmpl, data, output, deleted, arg, files, cleanup_paths>>

\* a section step
SectionStep(at, r, next) ==
    /\ mode = "render" /\ pc = at
    /\ doc' = r.doc
    /\ nid' = r.nid
    /\ deleted' = r.deleted
    /\ pc' = NextPc(r.raised, next)
    /\ res' = Append(res, IF r.raised THEN "raise" ELSE at)
    /\ UNCHANGED <<mode, tmpl, data, output, arg, files, cleanup_paths>>

\* data.get("name", "") raises AttributeError when the YAML file held no
\* document and yaml.safe_load gave None
SetName ==
    IF IsNone(data)
    THEN /\ mode = "render" /\ pc = "name"
         /\ pc' = NextPc(TRUE, "role")
         /\ res' = Append(res, "raise")
         /\ UNCHANGED <<mode, doc, nid, tmpl, data, output, deleted, arg, files, cleanup_paths>>
    ELSE HeaderStep("name", NamePrefix, Get(data, "name", <<>>), "role")

SetRole == HeaderStep("role", RolePrefix, Get(data, "role", <<>>), "week")

SetWeek ==
    HeaderStep("week", WeekPrefix,
               IF WeekBlank(data) THEN get_week_range(arg.today) ELSE data.week,
               "objective")

Objective == SectionStep("objective", ObjectiveSection(doc, nid, data), "execution")

Execution == SectionStep("execution", ExecutionSection(doc, nid, data), "ai")

AIAcceleration == SectionStep("ai", AISection(doc, nid, data), "sop")

Sop == SectionStep("sop", SopSection(doc, nid, data), "friction")

Friction == SectionStep("friction", FrictionSection(doc, nid, data), "focus")

Focus == SectionStep("focus", FocusSection(doc, nid, data), "save")

\* doc.save(args.output)
Save ==
    /\ mode = "render" /\ pc = "save"
    /\ output' = Append(output, doc)
    /\ pc' = "done"
    /\ res' = Append(res, "save")
    /\ UNCHANGED <<mode, doc, nid, tmpl, data, deleted, arg, files, cleanup_paths>>

Next ==
    \/ SetName \/ SetRole \/ SetWeek
    \/ Objective \/ Execution \/ AIAcceleration \/ Sop \/ Friction \/ Focus
    \/ Save

Spec == Init /\ [][Next]_vars

\* the steps of a run that reached doc.save, in order
AllSteps ==
    <<"name", "role", "week", "objective", "execution", "ai", "sop", "friction", "focus",
      "save">>

\* C2: after a run of main on a template that holds all six section headings
\* every section-heading paragraph of the template is still in the document,
\* unchanged and in the template's order, whatever the record is.
HeadingsSurvive ==
    (mode = "render" /\ pc = "done" /\ SectionHeadingIds \subseteq Ids(tmpl)) =>
        Keep(doc, SectionHeadingIds) = Keep(tmpl, SectionHeadingIds)

\* the section heading of a step, and the next section heading of the template
HeadingOfStep(step) ==
    CASE step = "objective" -> ObjId
      [] step = "execution" -> ExeId
      [] step = "ai" -> AiId
      [] step = "sop" -> SopId
      [] step = "friction" -> FrId
      [] step = "focus" -> NwId

NextHeadingId(h) ==
    IF \E g \in SectionHeadingIds : g > h
    THEN CHOOSE g \in SectionHeadingIds : g > h /\ \A k \in SectionHeadingIds : k > h => g <= k
    ELSE Len(BaseDoc) + 1

SectionSteps == {"objective", "execution", "ai", "sop", "friction", "focus"}

\* C3: on a template that holds the header lines and the six section headings
\* each section deletes only paragraphs that lie between its heading and the
\* next section heading of the template, never a section heading, and no step
\* of the run raises.
RegionsBounded ==
    (mode = "render" /\ RequiredAnchorIds \subseteq Ids(tmpl)) =>
        /\ pc # "error"
        /\ (res # <<>> /\ Last(res) \in SectionSteps) =>
              \A i \in 1..Len(deleted) :
                  /\ deleted[i].id \notin SectionHeadingIds
                  /\ HeadingOfStep(Last(res)) < deleted[i].id
                  /\ deleted[i].id < NextHeadingId(HeadingOfStep(Last(res)))

\* C5: when the template lacks one of the required anchors (a header line or a
\* section heading) the run ends in error and the output is never written.
AnchorMissingIsFatal ==
    (mode = "render" /\ ~(RequiredAnchorIds \subseteq Ids(tmpl))) =>
        (output = <<>> /\ pc \notin {"save", "done"})

\* C6: the output is written at most once, and only after the header steps and
\* the six section steps have completed in order; once a step has raised, the
\* run is over and the output is never written.
NoPartialSuccess ==
    mode = "render" =>
        /\ Len(output) <= 1
        /\ output # <<>> => (res = AllSteps /\ pc = "done")
        /\ \A i \in 1..Len(res) : res[i] # "raise" => res[i] = AllSteps[i]
        /\ (\E i \in 1..Len(res) : res[i] = "raise") =>
              (pc = "error" /\ output = <<>> /\ res[Len(res)] = "raise")

\* C6 witness: a run that wrote the output, from a template whose sample
\* paragraphs it replaced
NoPartialSuccessWitness ==
    /\ mode = "render" /\ pc = "done"
    /\ output = <<doc>>
    /\ doc # tmpl
    /\ data.has # {}

-----------------------------------------------------------------------------
(* The Execution & Output region of the document a run of main wrote *)

HeadingTexts == {H_OBJ, H_EXE, H_2X, H_AI, H_SOP, H_FR, H_NW}

\* the paragraphs of d after the paragraph that reads heading h and before the
\* next paragraph that reads one of the headings
RegionOf(d, h) ==
    LET s == find_paragraph(d, h)
        stops == {j \in (s + 1)..Len(d) : Strip(ParaText(d[j])) \in HeadingTexts}
        e == IF stops = {} THEN Len(d) + 1
             ELSE CHOOSE j \in stops : \A k \in stops : j <= k
    IN SubSeq(d, s + 1, e - 1)

IsBlankPara(p) == ParaText(p) = <<>>
IsTextPara(p) == ParaText(p) # <<>>
IsBoldPara(p) == Len(p.runs) = 1 /\ p.runs[1].bold /\ p.runs[1].text # <<>>

\* the paragraph texts the claims expect for a content: "N/A" for a blank one,
\* else one text per non-blank line
ExpansionTexts(content) ==
    IF BlankValue(content) THEN <<NA>>
    ELSE [k \in 1..Len(ClaimLines(content)) |-> ClaimLineText(ClaimLines(content)[k])]

\* summary then expansion, for each entry in order
RECURSIVE ExecItemsTexts(_)
ExecItemsTexts(items) ==
    IF items = <<>> THEN <<>>
    ELSE <<ExecSummary(Head(items))>> \o ExpansionTexts(ExecContent(Head(items)))
         \o ExecItemsTexts(Tail(items))

ParaTexts(ps) == [k \in 1..Len(ps) |-> ParaText(ps[k])]

ExecRecordItems == Get(data, "execution_output", <<>>)

\* C11: after a run of main on a record whose n execution entries each have a
\* non-empty summary, the region under "Execution & Output" holds exactly n
\* bold paragraphs, the summaries in record order, each followed by the
\* paragraphs of its content's expansion, and no paragraph of the template.
ExecRegionRendered ==
    (mode = "render" /\ pc = "done"
       /\ \A k \in 1..Len(ExecRecordItems) : Truthy(ExecSummary(ExecRecordItems[k]))) =>
        LET region == RegionOf(doc, H_EXE)
        IN /\ ParaTexts(SelectSeq(region, IsTextPara)) = ExecItemsTexts(ExecRecordItems)
           /\ ParaTexts(SelectSeq(region, IsBoldPara)) =
                  [k \in 1..Len(ExecRecordItems) |-> ExecSummary(ExecRecordItems[k])]
           /\ \A k \in 1..Len(region) : region[k].id \notin Ids(tmpl)

\* C11 witness: a finished run on two entries with summaries, a canonical one
\* and a legacy one, whose region holds six text paragraphs
ExecRegionRenderedWitness ==
    /\ mode = "render" /\ pc = "done"
    /\ Len(ExecRecordItems) = 2
    /\ \A k \in 1..2 : Truthy(ExecSummary(ExecRecordItems[k]))
    /\ "content" \in ExecRecordItems[1].has /\ "description" \in ExecRecordItems[2].has
    /\ Len(SelectSeq(RegionOf(doc, H_EXE), IsTextPara)) = 6
    /\ \E i \in 1..Len(tmpl) : tmpl[i].id \notin Ids(doc)

\* C12: in the region under "Execution & Output" a run of main wrote, blank
\* paragraphs stand only between two rendered entries and, once, before the
\* next heading: the region ends with a blank paragraph, does not start with
\* one unless nothing was rendered, and never holds two blank paragraphs in a
\* row, whatever entries the record lists.
ExecSpacers ==
    (mode = "render" /\ pc = "done") =>
        LET region == RegionOf(doc, H_EXE)
        IN /\ region # <<>> /\ IsBlankPara(Last(region))
           /\ Len(region) > 1 => ~IsBlankPara(region[1])
           /\ \A k \in 1..(Len(region) - 1) :
                  ~(IsBlankPara(region[k]) /\ IsBlankPara(region[k + 1]))

-----------------------------------------------------------------------------
(* Specification SpecFields: a YAML file read by main on the whole template, *)
(* or by the form page of app.py                                             *)

FieldsFull ==
    [has |-> AllKeys, name |-> <<"n">>, role |-> <<"r">>, week |-> <<"w">>,
     weekly_objective |-> <<"o">>,
     execution_output |-> <<ExecDict({"summary", "content"}, <<"s">>, <<"c">>, <<>>, <<>>, "")>>,
     transformation_log |-> [has |-> {"ai_acceleration_tasks"},
                             ai_acceleration_tasks |-> <<TaskEntry>>],
     sop_process_solidification |-> [has |-> {"items"},
                                     items |-> <<SopEntry(<<"i">>, <<"m">>)>>],
     friction_blockers_ask |-> <<FrictionDict(<<"f">>, <<"m">>, <<>>)>>,
     next_week_focus |-> <<<<"x">>>>]

\* every field present and empty
FieldsEmpty ==
    [has |-> AllKeys, name |-> <<>>, role |-> <<>>, week |-> <<>>,
     weekly_objective |-> <<>>, execution_output |-> <<>>,
     transformation_log |-> [has |-> {}],
     sop_process_solidification |-> [has |-> {}],
     friction_blockers_ask |-> <<>>, next_week_focus |-> <<>>]

\* records with any subset of the fields absent, the others full or empty
SparseRecords ==
    {[r EXCEPT !.has = keys] : r \in {FieldsFull, FieldsEmpty}, keys \in SUBSET AllKeys}

SopFieldValues ==
    { NoneDict,
      [has |-> {}],
      [has |-> {"items"}, items |-> <<>>],
      [has |-> {"items"}, items |-> <<SopDefault>>],
      [has |-> {"items"}, items |-> <<SopEntry(<<"i">>, <<"m">>), SopEntry(<<"j">>, <<>>)>>],
      [has |-> {"item"}, item |-> <<"i">>],
      [has |-> {"items", "impact"}, items |-> <<>>, impact |-> <<"m">>] }

FrictionFieldTexts == {<<>>, <<SP>>, <<"f">>}

FrictionFieldEntries ==
    {FrictionDict(f, a, k) : f \in FrictionFieldTexts, a \in FrictionFieldTexts,
                             k \in FrictionFieldTexts}

FieldRecords ==
    SparseRecords
    \cup {[FieldsFull EXCEPT !.sop_process_solidification = v] : v \in SopFieldValues}
    \cup {[FieldsFull EXCEPT !.friction_blockers_ask = v] :
             v \in SeqsUpTo(FrictionFieldEntries, MaxItems)}
    \cup {NoneDict}

InitFields ==
    /\ mode \in {"render", "index"}
    /\ pc = IF mode = "render" THEN "name" ELSE "load"
    /\ tmpl = BaseDoc
    /\ doc = tmpl
    /\ nid = Len(BaseDoc) + 1
    /\ data \in FieldRecords
    /\ arg = [today |-> 0]
    /\ res = <<>>
    /\ output = <<>>
    /\ deleted = <<>>
    /\ files = {} /\ cleanup_paths = <<>>

\* index(): load_previous_data() gives {} for a file without document, and
\* the three list fields go through their normalizers
IndexDefaults ==
    /\ mode = "index" /\ pc = "load"
    /\ LET prev_data == IF IsNone(data) THEN [has |-> {}] ELSE data
           ex == _normalize_execution_output(
                     RawList(Get(prev_data, "execution_output", <<>>)))
           sop == _normalize_sop_items(
                      RawDict(Get(prev_data, "sop_process_solidification", [has |-> {}])))
           fr == _normalize_friction_items(
                     RawList(Get(prev_data, "friction_blockers_ask", <<>>)))
       IN /\ res' = <<[execution_output |-> ex.out, sop_items |-> sop.out,
                       friction_blockers_ask |-> fr.out]>>
          /\ pc' = NextPc(ex.raised \/ sop.raised \/ fr.raised, "defaults")
    /\ UNCHANGED <<mode, doc, nid, tmpl, data, output, deleted, arg, files, cleanup_paths>>

NextFields == IndexDefaults \/ Next

SpecFields == InitFields /\ [][NextFields]_vars

FrictionRecordItems == Get(data, "friction_blockers_ask", <<>>)

\* label and value of a label/value line
LabelValue(label, value) == [label |-> label, value |-> value]
LabelValueOf(p) ==
    IF Len(p.runs) = 2 /\ p.runs[1].bold /\ ~p.runs[2].bold
    THEN LabelValue(p.runs[1].text[1], p.runs[2].text)
    ELSE LabelValue("", <<>>)

\* the value after the label of a one-line block
BlockValue(t) == <<SP>> \o (IF BlankValue(t) THEN NA ELSE t)

\* the lines the claim states for the entries: none for an entry whose three
\* fields are blank, else the friction line and the two blocks
RECURSIVE FrictionLines(_)
FrictionLines(items) ==
    IF items = <<>> THEN <<>>
    ELSE LET friction == Get(Head(items), "friction", <<>>)
             action == Get(Head(items), "action_mitigation", <<>>)
             ask == Get(Head(items), "ask_attention_needed", <<>>)
         IN (IF BlankValue(friction) /\ BlankValue(action) /\ BlankValue(ask) THEN <<>>
             ELSE << LabelValue("Friction", IF BlankValue(friction) THEN NA ELSE Strip(friction)),
                     LabelValue("Action/Mitigation:", BlockValue(action)),
                     LabelValue("Ask/Attention needed:", BlockValue(ask)) >>)
            \o FrictionLines(Tail(items))

FrictionRegionLines ==
    LET ps == SelectSeq(RegionOf(doc, H_FR), IsTextPara)
    IN [k \in 1..Len(ps) |-> LabelValueOf(ps[k])]

\* C13: after a run of main the region under "Friction, Blockers & Ask" holds
\* no paragraph for an entry whose three fields are blank (empty or only
\* whitespace), and for every other entry a "Friction N: " line with the
\* trimmed friction text or "N/A", then the Action/Mitigation and the
\* Ask/Attention needed blocks.
FrictionEntries ==
    (mode = "render" /\ pc = "done") => FrictionRegionLines = FrictionLines(FrictionRecordItems)

\* an empty SOP input: the key missing, None, {} or an empty items list
EmptySopInput(rec) ==
    LET sop == Get(rec, "sop_process_solidification", [has |-> {}])
    IN sop.has \subseteq {"items"} /\ Get(sop, "items", <<>>) = <<>>

\* C14: an empty SOP input normalizes to the one entry {item: "None",
\* impact: "N/A"}; and after a run of main on an empty SOP input, or on the
\* normalized entry, the region under "SOP & Process Solidification" is the
\* line "Item: None", the line "Impact: N/A" and one blank paragraph.
SopDefaultRendered ==
    LET entry == [has |-> {"item", "impact"}, item |-> <<"None">>, impact |-> <<"N/A">>]
        region == RegionOf(doc, H_SOP)
    IN /\ (mode = "index" /\ pc # "load" /\ EmptySopInput(data)) =>
              (pc = "defaults" /\ res[1].sop_items = <<entry>>)
       /\ (mode = "render" /\ pc = "done"
             /\ (EmptySopInput(data)
                 \/ Get(data.sop_process_solidification, "items", <<>>) = <<entry>>)) =>
              /\ Len(region) = 3
              /\ region[1].runs = <<Run(<<"Item:", SP>>, TRUE), Run(<<"None">>, FALSE)>>
              /\ region[2].runs = <<Run(<<"Impact:">>, TRUE), Run(<<SP, "N/A">>, FALSE)>>
              /\ IsBlankPara(region[3])
              /\ \A k \in 1..3 : region[k].id \notin Ids(tmpl)

\* C14 witness: a finished run on a record whose SOP field is None, the
\* template's sample paragraph replaced by the two lines and the spacer
SopDefaultRenderedWitness ==
    /\ mode = "render" /\ pc = "done"
    /\ "sop_process_solidification" \in data.has
    /\ IsNone(data.sop_process_solidification)
    /\ Len(RegionOf(doc, H_SOP)) = 3
    /\ SopId + 1 \notin Ids(doc)

\* C19: on a template that holds every anchor, no step of main raises,
\* whatever fields the input lacks or leaves empty, a file that holds no
\* field at all included; the run ends with the output written.
MissingDataNeverFails ==
    (mode = "render" /\ RequiredAnchorIds \subseteq Ids(tmpl)) =>
        /\ pc # "error"
        /\ pc = "done" => output = <<doc>>

-----------------------------------------------------------------------------
(* Specification SpecHeader: the three header steps of main, on templates   *)
(* whose header lines are filled, bare or indented, on each day of a week   *)

\* a header line of the template: the prefix and a value, the prefix alone,
\* the line after leading whitespace
HeaderLines(prefix) == {prefix \o <<"x">>, prefix, <<SP>> \o prefix \o <<"x">>}

HeaderTemplates ==
    {DocOfTexts([BaseTexts EXCEPT ![NameId] = nl, ![RoleId] = rl, ![WeekId] = wl]) :
        nl \in HeaderLines(NamePrefix), rl \in HeaderLines(RolePrefix),
        wl \in HeaderLines(WeekPrefix)}

HeaderKeys == {"name", "role", "week"}

HeaderRecords ==
    {[has |-> keys, name |-> nm, role |-> <<"r">>, week |-> wk] :
        keys \in SUBSET HeaderKeys,
        nm \in {<<>>, <<"n">>},
        wk \in {NONE, <<>>, <<SP>>, <<"w">>, <<SP, "w", SP>>}}

\* the days main may run on: a whole week, Monday 2024-01-08 to Sunday
HeaderDays == {d \in 0..13 : d >= 7}

InitHeader ==
    /\ mode = "render"
    /\ pc = "name"
    /\ tmpl \in HeaderTemplates
    /\ doc = tmpl
    /\ nid = Len(BaseDoc) + 1
    /\ data \in HeaderRecords
    /\ arg \in [today : IF WeekBlank(data) THEN HeaderDays ELSE {0}]
    /\ res = <<>>
    /\ output = <<>>
    /\ deleted = <<>>
    /\ files = {} /\ cleanup_paths = <<>>

NextHeader == SetName \/ SetRole \/ SetWeek

SpecHeader == InitHeader /\ [][NextHeader]_vars

\* the header steps in order, their lines and prefixes
HeaderStepNames == <<"name", "role", "week">>
HeaderLineIds == <<NameId, RoleId, WeekId>>
HeaderPrefixes == <<NamePrefix, RolePrefix, WeekPrefix>>

\* the value the record gives for a header step
HeaderValue(k) ==
    CASE k = 1 -> Get(data, "name", <<>>)
      [] k = 2 -> Get(data, "role", <<>>)
      [] k = 3 -> IF WeekBlank(data) THEN get_week_range(arg.today) ELSE data.week

\* C15: each header step that has run changed the runs of its header line to
\* prefix + value and nothing else: the document holds the template's
\* paragraphs, in order, each unchanged but the header lines of the steps run
\* so far, which keep identity, style and indent; after the three steps the
\* lines read "Name: <name>", "Role: <role>", "Week: <week>".
HeaderInPlace ==
    mode = "render" =>
        /\ Len(doc) = Len(tmpl)
        /\ \A i \in 1..Len(doc) :
              IF \E k \in 1..Len(res) : res[k] = HeaderStepNames[k] /\ HeaderLineIds[k] = i
              THEN /\ doc[i] = [tmpl[i] EXCEPT !.runs = doc[i].runs]
                   /\ \E k \in 1..Len(res) :
                         /\ HeaderLineIds[k] = i
                         /\ ParaText(doc[i]) = HeaderPrefixes[k] \o HeaderValue(k)
              ELSE doc[i] = tmpl[i]

\* C15 witness: the three steps have run and changed three lines
HeaderInPlaceWitness ==
    /\ mode = "render" /\ pc = "objective"
    /\ res = HeaderStepNames
    /\ \A k \in 1..3 : doc[HeaderLineIds[k]] # tmpl[HeaderLineIds[k]]
    /\ HeaderKeys \subseteq data.has

\* C16: a header line that reads exactly the prefix, with nothing after it,
\* is found by its step: the step does not raise.
BarePrefixFound ==
    mode = "render" =>
        \A k \in 1..Len(res) :
            ParaText(tmpl[HeaderLineIds[k]]) = HeaderPrefixes[k] =>
                /\ res[k] = HeaderStepNames[k]
                /\ ParaText(doc[HeaderLineIds[k]]) = HeaderPrefixes[k] \o HeaderValue(k)

\* the Monday on or before a day
MondayOf(today) == CHOOSE m \in 0..today : m % 7 = 0 /\ today - m <= 6

\* C17: after the week step the Week line reads "Week: " and, when the
\* record's week is missing, None, empty or only whitespace, the range from
\* the Monday on or before today to the day 4 days later; else the record's
\* week unchanged.
WeekDefault ==
    (mode = "render" /\ Len(res) = 3 /\ res[3] = "week") =>
        ParaText(doc[WeekId]) =
            WeekPrefix \o
            (IF "week" \notin data.has \/ BlankValue(data.week)
             THEN <<DateStr(MondayOf(arg.today)), SP, "->", SP,
                    DateStr(MondayOf(arg.today) + 4)>>
             ELSE data.week)

\* C17 witness: a run on a Sunday with a week of only whitespace
WeekDefaultWitness ==
    /\ mode = "render" /\ Len(res) = 3 /\ res[3] = "week"
    /\ "week" \in data.has /\ data.week = <<SP>>
    /\ arg.today % 7 = 6
    /\ ParaText(doc[WeekId]) # ParaText(tmpl[WeekId])

-----------------------------------------------------------------------------
(* Specification SpecNormalize: each normalizer of app.py called once on a  *)
(* raw field value of any type                                               *)

\* entries a raw list may hold: canonical and legacy execution entries, a
\* legacy entry without description, one whose description is None, a str, a
\* None, a friction entry, an SOP entry, an empty dict
NormEntries ==
    { ExecDict({"summary", "content"}, <<"s">>, <<"c">>, <<>>, <<>>, ""),
      ExecDict({"summary", "description", "bullets", "order"}, <<"s">>, <<>>,
               <<SP, "d">>, <<<<"b">>>>, "description_first"),
      ExecDict({"summary", "bullets"}, <<"s">>, <<>>, <<>>, <<<<"b">>>>, ""),
      ExecDict({"summary", "description"}, <<"s">>, <<>>, NONE, <<>>, ""),
      Scalar(<<"x">>),
      Scalar(<<>>),
      FrictionDict(<<"f">>, <<>>, <<"k">>),
      SopEntry(<<"i">>, <<"m">>),
      [has |-> {}] }

RawValues ==
    {RawNone, RawInt(0), RawInt(5), RawStr(<<>>), RawStr(<<"a", "b">>)}
    \cup {RawList(s) : s \in SeqsUpTo(NormEntries, MaxItems)}
    \cup {RawDict(r) : r \in { [has |-> {}],
                               [has |-> {"items"}, items |-> <<>>],
                               [has |-> {"items"},
                                items |-> <<SopEntry(<<"i">>, <<"m">>), Scalar(<<"x">>),
                                            [has |-> {"item"}, item |-> <<"j">>]>>],
                               [has |-> {"item"}, item |-> <<"i">>],
                               [has |-> {"impact"}, impact |-> <<"m">>] }}

InitNormalize ==
    /\ mode = "normalize"
    /\ pc = "call"
    /\ arg \in RawValues
    /\ res = <<>>
    /\ doc = NoDoc /\ tmpl = NoDoc /\ nid = 0 /\ data = NoData
    /\ output = <<>> /\ deleted = <<>>
    /\ files = {} /\ cleanup_paths = <<>>

\* a normalizer called on the raw value
NormalizeCall(r, at) ==
    /\ mode = "normalize" /\ pc = "call"
    /\ res' = <<r>>
    /\ pc' = at
    /\ UNCHANGED <<mode, doc, nid, tmpl, data, output, deleted, arg, files, cleanup_paths>>

NormalizeExecution == NormalizeCall(_normalize_execution_output(arg), "execution_output")

NormalizeSop == NormalizeCall(_normalize_sop_items(arg), "sop_items")

NormalizeFriction == NormalizeCall(_normalize_friction_items(arg), "friction_blockers_ask")

NextNormalize == NormalizeExecution \/ NormalizeSop \/ NormalizeFriction

SpecNormalize == InitNormalize /\ [][NextNormalize]_vars

\* the keys of a canonical entry of each field
CanonicalKeys(field) ==
    CASE field = "execution_output" -> {"summary", "content"}
      [] field = "sop_items" -> {"item", "impact"}
      [] field = "friction_blockers_ask" ->
             {"friction", "action_mitigation", "ask_attention_needed"}

\* C18: each of the three normalizers, on every raw value (None, a scalar, a
\* list, a dict, entries of the wrong type, legacy entries with missing or
\* None sub-keys), returns without raising a list that is not empty and
\* whose entries are dicts with the canonical keys of the field.
NormalizersTotal ==
    (mode = "normalize" /\ pc # "call") =>
        /\ ~res[1].raised
        /\ res[1].out # <<>>
        /\ \A k \in 1..Len(res[1].out) : res[1].out[k].has = CanonicalKeys(pc)

-----------------------------------------------------------------------------
(* Specification SpecGenerate: one request to the /generate handler of      *)
(* app.py, from the parsing of the form to the _cleanup callback that runs  *)
(* after the response.  Of the form only the three required fields are      *)
(* held: the other fields do not decide which way the handler goes.  An     *)
(* exception a statement may raise (a file that cannot be created or        *)
(* written, a process that cannot be started) is a choice of the step.      *)

YamlTmp == "yaml_tmp_path"
OutputTmp == "output_tmp_path"

FormTexts == {<<>>, <<SP>>, <<SP, "a">>}

InitGenerate ==
    /\ mode = "generate"
    /\ pc = "parse"
    /\ arg \in [form : [name : FormTexts, role : FormTexts, week : FormTexts],
                template_exists : BOOLEAN, PERSIST_YAML : BOOLEAN]
    /\ res = <<>>
    /\ data = NoData
    /\ doc = NoDoc /\ tmpl = NoDoc /\ nid = 0
    /\ output = <<>> /\ deleted = <<>>
    /\ files = {} /\ cleanup_paths = <<>>

\* the handler goes on to the statement at next, or returns a response with
\* the status given (the except clause returns 500)
GoOn(next) == pc' = next /\ res' = res
Respond(status) == pc' = "after_request" /\ res' = Append(res, status)

\* cleanup_paths = [], the form parsed, the required fields validated
GenParse ==
    /\ mode = "generate" /\ pc = "parse"
    /\ cleanup_paths' = <<>>
    /\ data' = [name |-> Strip(arg.form.name), role |-> Strip(arg.form.role),
                week |-> Strip(arg.form.week)]
    /\ IF data'.name = <<>> \/ data'.role = <<>> \/ data'.week = <<>>
       THEN Respond(400)
       ELSE GoOn("template")
    /\ UNCHANGED <<mode, doc, nid, tmpl, output, deleted, arg, files>>

\* the template looked for, and the form persisted when PERSIST_YAML is set
GenTemplate ==
    /\ mode = "generate" /\ pc = "template"
    /\ IF ~arg.template_exists THEN Respond(400)
       ELSE IF arg.PERSIST_YAML
       THEN \E raises \in BOOLEAN : IF raises THEN Respond(500) ELSE GoOn("yaml_tmp")
       ELSE GoOn("yaml_tmp")
    /\ UNCHANGED <<mode, doc, nid, tmpl, data, output, deleted, arg, files, cleanup_paths>>

\* the YAML temporary file: created (delete=False), the record dumped into
\* it, and the path registered after the with block
GenYamlTmp ==
    /\ mode = "generate" /\ pc = "yaml_tmp"
    /\ \E step \in {"create raises", "dump raises", "registered"} :
          /\ files' = IF step = "create raises" THEN files ELSE files \cup {YamlTmp}
          /\ cleanup_paths' = IF step = "registered" THEN Append(cleanup_paths, YamlTmp)
                              ELSE cleanup_paths
          /\ IF step = "registered" THEN GoOn("output_tmp") ELSE Respond(500)
    /\ UNCHANGED <<mode, doc, nid, tmpl, data, output, deleted, arg>>

\* the .docx placeholder: created, and the path registered after the with block
GenOutputTmp ==
    /\ mode = "generate" /\ pc = "output_tmp"
    /\ \E step \in {"create raises", "registered"} :
          /\ files' = IF step = "create raises" THEN files ELSE files \cup {OutputTmp}
          /\ cleanup_paths' = IF step = "registered" THEN Append(cleanup_paths, OutputTmp)
                              ELSE cleanup_paths
          /\ IF step = "registered" THEN GoOn("run") ELSE Respond(500)
    /\ UNCHANGED <<mode, doc, nid, tmpl, data, output, deleted, arg>>

\* subprocess.run of the generator, its return code and its output file
GenRun ==
    /\ mode = "generate" /\ pc = "run"
    /\ \E step \in {"run raises", "returncode 1", "returncode 0"} :
          IF step = "returncode 0" /\ OutputTmp \in files THEN GoOn("send")
          ELSE Respond(500)
    /\ UNCHANGED <<mode, doc, nid, tmpl, data, output, deleted, arg, files, cleanup_paths>>

\* send_file of the output
GenSend ==
    /\ mode = "generate" /\ pc = "send"
    /\ \E raises \in BOOLEAN : IF raises THEN Respond(500) ELSE Respond(200)
    /\ UNCHANGED <<mode, doc, nid, tmpl, data, output, deleted, arg, files, cleanup_paths>>

RECURSIVE RemoveAll(_, _)
RemoveAll(fs, paths) ==
    IF paths = <<>> THEN fs ELSE RemoveAll(fs \ {Head(paths)}, Tail(paths))

\* _cleanup, run after the request: os.remove of each registered path
GenCleanup ==
    /\ mode = "generate" /\ pc = "after_request"
    /\ files' = RemoveAll(files, cleanup_paths)
    /\ pc' = "sent"
    /\ UNCHANGED <<mode, doc, nid, tmpl, data, output, deleted, arg, res, cleanup_paths>>

NextGenerate ==
    \/ GenParse \/ GenTemplate \/ GenYamlTmp \/ GenOutputTmp \/ GenRun \/ GenSend
    \/ GenCleanup

SpecGenerate == InitGenerate /\ [][NextGenerate]_vars

\* C20: once the response of a request has been sent and _cleanup has run,
\* none of the temporary files the request created is left on disk, whether
\* the handler returned the document, an error response, or caught an
\* exception raised after the file was created.
TempFilesCleaned ==
    (mode = "generate" /\ pc = "sent") => files = {}

-----------------------------------------------------------------------------
(* Specification SpecRequests: two requests to /generate served at the same  *)
(* time (the server runs a handler per request), interleaved step by step.   *)
(* Here the files have a content.  A form is held as one value: the YAML     *)
(* dump of a record is Yaml(form), the generator loads a YAML file back to   *)
(* the form it was dumped from and saves Docx(form), and the placeholder     *)
(* that NamedTemporaryFile creates is the empty file.  The generator is a    *)
(* process of its own: it reads its --input when it starts and writes its    *)
(* --output when it ends, and other requests run in between.  The            *)
(* exceptions of the file system are those of SpecGenerate and are left out. *)

Requests == {1, 2}
Forms == {"form_a", "form_b"}

\* get_input_yaml_path(): the one file every request persists to
SharedYaml == "weekly_report_input.yaml"
\* the names tempfile can hand out; it never hands out a name that exists
TmpNames == {"tmp_1", "tmp_2", "tmp_3", "tmp_4"}

NoContent == [kind |-> "none", of |-> ""]
EmptyFile == [kind |-> "empty", of |-> ""]
Yaml(form) == [kind |-> "yaml", of |-> form]
Docx(form) == [kind |-> "docx", of |-> form]

NoPath == ""
NoResponse == [status |-> 0, body |-> NoContent]

\* open(path, "w") and the write: the file is created or replaced
WriteFile(fs, path, content) ==
    [p \in DOMAIN fs \cup {path} |-> IF p = path THEN content ELSE fs[p]]

\* os.remove of each path of the list; a path that is not there is passed over
RECURSIVE RemovePaths(_, _)
RemovePaths(fs, paths) ==
    IF paths = <<>> THEN fs
    ELSE RemovePaths([p \in DOMAIN fs \ {Head(paths)} |-> fs[p]], Tail(paths))

InitRequests ==
    /\ mode = "requests"
    /\ pc = [r \in Requests |-> "parse"]
    /\ arg \in [forms : [Requests -> Forms], PERSIST_YAML : BOOLEAN]
    /\ data = [r \in Requests |->
                 [form |-> "", yaml_tmp_path |-> NoPath, output_tmp_path |-> NoPath,
                  loaded |-> NoContent, returncode |-> 0]]
    /\ res = [r \in Requests |-> NoResponse]
    /\ files = << >>
    /\ cleanup_paths = [r \in Requests |-> <<>>]
    /\ doc = NoDoc /\ tmpl = NoDoc /\ nid = 0
    /\ output = <<>> /\ deleted = <<>>

\* request r moves from step at to step next
At(r, at) == mode = "requests" /\ pc[r] = at
Goto(r, next) == pc' = [pc EXCEPT ![r] = next]

\* the --input and --output arguments of the subprocess of request r
GeneratorInputShared(r) == SharedYaml
GeneratorInput(r) == data[r].yaml_tmp_path
GeneratorOutput(r) == data[r].output_tmp_path

\* the test of the return code of the subprocess
GeneratorFailedNever(returncode) == FALSE
GeneratorFailed(returncode) == returncode # 0

\* cleanup_paths = [] and the form parsed into data
ReqParse(r) ==
    /\ At(r, "parse")
    /\ data' = [data EXCEPT ![r].form = arg.forms[r]]
    /\ cleanup_paths' = [cleanup_paths EXCEPT ![r] = <<>>]
    /\ Goto(r, "persist")
    /\ UNCHANGED <<mode, doc, nid, tmpl, output, deleted, arg, res, files>>

\* if PERSIST_YAML: the form dumped to the shared YAML file
ReqPersist(r) ==
    /\ At(r, "persist")
    /\ files' = IF arg.PERSIST_YAML THEN WriteFile(files, SharedYaml, Yaml(data[r].form))
                ELSE files
    /\ Goto(r, "yaml_tmp")
    /\ UNCHANGED <<mode, doc, nid, tmpl, data, output, deleted, arg, res, cleanup_paths>>

\* the YAML temporary file: a new name, the form dumped, the path registered
ReqYamlTmp(r) ==
    /\ At(r, "yaml_tmp")
    /\ \E name \in TmpNames \ DOMAIN files :
          /\ files' = WriteFile(files, name, Yaml(data[r].form))
          /\ data' = [data EXCEPT ![r].yaml_tmp_path = name]
          /\ cleanup_paths' = [cleanup_paths EXCEPT ![r] = Append(@, name)]
    /\ Goto(r, "output_tmp")
    /\ UNCHANGED <<mode, doc, nid, tmpl, output, deleted, arg, res>>

\* the .docx placeholder: a new name, nothing written, the path registered
ReqOutputTmp(r) ==
    /\ At(r, "output_tmp")
    /\ \E name \in TmpNames \ DOMAIN files :
          /\ files' = WriteFile(files, name, EmptyFile)
          /\ data' = [data EXCEPT ![r].output_tmp_path = name]
          /\ cleanup_paths' = [cleanup_paths EXCEPT ![r] = Append(@, name)]
    /\ Goto(r, "load")
    /\ UNCHANGED <<mode, doc, nid, tmpl, output, deleted, arg, res>>

\* the generator starts: yaml.safe_load of its --input; a missing file or a
\* template without an anchor ends it with return code 1
GeneratorLoad(r) ==
    /\ At(r, "load")
    /\ \E anchors_found \in BOOLEAN :
          IF GeneratorInput(r) \in DOMAIN files /\ anchors_found
          THEN /\ data' = [data EXCEPT ![r].loaded = files[GeneratorInput(r)]]
               /\ Goto(r, "save")
          ELSE /\ data' = [data EXCEPT ![r].returncode = 1]
               /\ Goto(r, "respond")
    /\ UNCHANGED <<mode, doc, nid, tmpl, output, deleted, arg, res, files, cleanup_paths>>

\* the generator ends: doc.save to its --output, return code 0
GeneratorSave(r) ==
    /\ At(r, "save")
    /\ files' = WriteFile(files, GeneratorOutput(r), Docx(data[r].loaded.of))
    /\ data' = [data EXCEPT ![r].returncode = 0]
    /\ Goto(r, "respond")
    /\ UNCHANGED <<mode, doc, nid, tmpl, output, deleted, arg, res, cleanup_paths>>

\* the return code tested, the output looked for, send_file of the output
ReqRespond(r) ==
    /\ At(r, "respond")
    /\ res' = [res EXCEPT ![r] =
                 IF GeneratorFailed(data[r].returncode) THEN [status |-> 500, body |-> NoContent]
                 ELSE IF GeneratorOutput(r) \notin DOMAIN files
                 THEN [status |-> 500, body |-> NoContent]
                 ELSE [status |-> 200, body |-> files[GeneratorOutput(r)]]]
    /\ Goto(r, "after_request")
    /\ UNCHANGED <<mode, doc, nid, tmpl, data, output, deleted, arg, files, cleanup_paths>>

\* _cleanup of request r
ReqCleanup(r) ==
    /\ At(r, "after_request")
    /\ files' = RemovePaths(files, cleanup_paths[r])
    /\ Goto(r, "sent")
    /\ UNCHANGED <<mode, doc, nid, tmpl, data, output, deleted, arg, res, cleanup_paths>>

NextRequests ==
    \E r \in Requests :
       \/ ReqParse(r) \/ ReqPersist(r) \/ ReqYamlTmp(r) \/ ReqOutputTmp(r)
       \/ GeneratorLoad(r) \/ GeneratorSave(r) \/ ReqRespond(r) \/ ReqCleanup(r)

SpecRequests == InitRequests /\ [][NextRequests]_vars

\* the temporary paths request r holds while it is served
PathsOf(r) ==
    IF pc[r] = "sent" THEN {}
    ELSE {data[r].yaml_tmp_path, data[r].output_tmp_path} \ {NoPath}

\* C21: in every interleaving of two requests, the temporary paths of one
\* request are distinct from those of the other, the generator of a request
\* has loaded the YAML dump of that request's form, and a document sent to a
\* request is the document of that request's form, with PERSIST_YAML on or
\* off.
RequestIsolation ==
    mode = "requests" =>
       \A r \in Requests :
          /\ \A s \in Requests \ {r} : PathsOf(r) \cap PathsOf(s) = {}
          /\ SharedYaml \notin PathsOf(r)
          /\ pc[r] = "save" => data[r].loaded = Yaml(arg.forms[r])
          /\ res[r].status = 200 => res[r].body = Docx(arg.forms[r])

\* request 1 has its document while the shared YAML file holds the other
\* form, written by request 2, which is still being served
RequestIsolationWitness ==
    /\ mode = "requests"
    /\ arg.PERSIST_YAML
    /\ arg.forms[1] # arg.forms[2]
    /\ res[1].status = 200
    /\ pc[2] = "save"
    /\ SharedYaml \in DOMAIN files
    /\ files[SharedYaml] = Yaml(arg.forms[2])

\* C28: when the generator of a request has ended with a non-zero return
\* code, the response of the request has status 500, and no response carries
\* the empty placeholder that the handler created before the run.
GeneratorFailureSurfaced ==
    mode = "requests" =>
       \A r \in Requests :
          /\ (data[r].returncode # 0 /\ res[r] # NoResponse)
                => res[r].status = 500
          /\ res[r].body # EmptyFile

\* a request whose generator failed has been answered while its placeholder
\* is still on disk, empty
GeneratorFailureSurfacedWitness ==
    /\ mode = "requests"
    /\ \E r \in Requests :
          /\ data[r].returncode = 1
          /\ pc[r] = "after_request"
          /\ res[r].status = 500
          /\ GeneratorOutput(r) \in DOMAIN files
          /\ files[GeneratorOutput(r)] = EmptyFile

-----------------------------------------------------------------------------
(* Specification SpecPaths: a run of main with its three path arguments on   *)
(* a disk that holds a template and a YAML file.  The arguments are any      *)
(* three paths, equal or not; tmpl is the content of the --template file     *)
(* before the run.                                                           *)

TemplatePath == "template.docx"
InputPath == "input.yaml"
OutputPath == "output.docx"
Paths == {TemplatePath, InputPath, OutputPath}

DocxFile(d) == [docx |-> d]
YamlFile(rec) == [yaml |-> rec]
Absent == [absent |-> TRUE]
FileAt(fs, path) == IF path \in DOMAIN fs THEN fs[path] ELSE Absent

PathRecords == {FieldsFull, [has |-> {}]}

InitPaths ==
    /\ mode = "render"
    /\ pc = "load"
    /\ arg \in [today : {2}, template : Paths, input : Paths, output : Paths]
    /\ \E rec \in PathRecords :
          files = [p \in {TemplatePath, InputPath} |->
                     IF p = TemplatePath THEN DocxFile(BaseDoc) ELSE YamlFile(rec)]
    /\ tmpl = FileAt(files, arg.template)
    /\ doc = NoDoc /\ data = NoData
    /\ nid = Len(BaseDoc) + 1
    /\ res = <<>> /\ output = <<>> /\ deleted = <<>>
    /\ cleanup_paths = <<>>

\* yaml.safe_load of the --input file, then Document(args.template): a file
\* that is missing or of the other kind raises
PathsLoad ==
    /\ mode = "render" /\ pc = "load"
    /\ LET input == FileAt(files, arg.input)
           template == FileAt(files, arg.template)
           ok == "yaml" \in DOMAIN input /\ "docx" \in DOMAIN template
       IN /\ data' = IF ok THEN input.yaml ELSE data
          /\ doc' = IF ok THEN template.docx ELSE doc
          /\ pc' = NextPc(~ok, "name")
          /\ res' = IF ok THEN res ELSE Append(res, "raise")
    /\ UNCHANGED <<mode, nid, tmpl, output, deleted, arg, files, cleanup_paths>>

\* doc.save(args.output): the file at the output path is created or replaced
SavePath ==
    /\ mode = "render" /\ pc = "save"
    /\ files' = WriteFile(files, arg.output, DocxFile(doc))
    /\ output' = Append(output, doc)
    /\ pc' = "done"
    /\ res' = Append(res, "save")
    /\ UNCHANGED <<mode, doc, nid, tmpl, data, deleted, arg, cleanup_paths>>

NextPaths ==
    \/ PathsLoad
    \/ SetName \/ SetRole \/ SetWeek
    \/ Objective \/ Execution \/ AIAcceleration \/ Sop \/ Friction \/ Focus
    \/ SavePath

SpecPaths == InitPaths /\ [][NextPaths]_vars

\* C22: at every point of a run of main, for any --template, --input and
\* --output, the file at the --template path holds what it held before the
\* run.
TemplateNeverModified ==
    (mode = "render" /\ "template" \in DOMAIN arg)
       => FileAt(files, arg.template) = tmpl

-----------------------------------------------------------------------------
(* Specification SpecCoerce: one entry of execution_output coerced to its    *)
(* content string by the generator (main, the start of the loop body) and by *)
(* app._normalize_execution_output, in either order.  The entry is a dict    *)
(* with any subset of the keys summary, content, description, bullets and    *)
(* order, or a scalar.  bullets is a list of texts (a str of lines is not    *)
(* taken here).                                                              *)

CoerceDescriptions == {<<>>, <<"d">>, <<SP, "d">>, <<SP>>, NONE}
CoerceBullets == SeqsUpTo({<<"a">>, <<"b">>}, MaxItems)
CoerceOrders == {"bullets_first", "description_first", "other"}
CoerceKeys == {"summary", "content", "description", "bullets", "order"}

CoerceEntries ==
    { ExecDict(has, summary, content, description, bullets, order) :
        has \in SUBSET CoerceKeys,
        summary \in {<<>>, <<"s">>},
        content \in {<<>>, <<"c">>},
        description \in CoerceDescriptions,
        bullets \in CoerceBullets,
        order \in CoerceOrders \cup {""} }

\* a key that is absent has the idle value of its field
WellFormedEntry(item) ==
    /\ ("summary" \in item.has) = (item.summary = <<"s">>)
    /\ "content" \notin item.has => item.content = <<>>
    /\ "description" \notin item.has => item.description = <<>>
    /\ "bullets" \notin item.has => item.bullets = <<>>
    /\ ("order" \in item.has) = (item.order # "")

NotCalled == [raised |-> FALSE, out |-> <<"(not called)">>]

InitCoerce ==
    /\ mode = "coerce"
    /\ pc = "call"
    /\ arg \in {item \in CoerceEntries : WellFormedEntry(item)}
                 \cup {Scalar(<<>>), Scalar(<<"x">>)}
    /\ res = [main |-> NotCalled, app |-> NotCalled]
    /\ doc = NoDoc /\ tmpl = NoDoc /\ nid = 0 /\ data = NoData
    /\ output = <<>> /\ deleted = <<>>
    /\ files = {} /\ cleanup_paths = <<>>

\* main: summary and content of the entry, the legacy branch included
CoerceMain ==
    /\ mode = "coerce" /\ res.main = NotCalled
    /\ res' = [res EXCEPT !.main = Ok(ExecContent(arg))]
    /\ pc' = IF pc = "call" THEN "main" ELSE "both"
    /\ UNCHANGED <<mode, doc, nid, tmpl, data, output, deleted, arg, files, cleanup_paths>>

\* app: _normalize_execution_output([entry]), the content of its one entry
CoerceApp ==
    /\ mode = "coerce" /\ res.app = NotCalled
    /\ LET r == _normalize_execution_output(RawList(<<arg>>))
       IN res' = [res EXCEPT !.app = IF r.raised THEN Raised ELSE Ok(r.out[1].content)]
    /\ pc' = IF pc = "call" THEN "app" ELSE "both"
    /\ UNCHANGED <<mode, doc, nid, tmpl, data, output, deleted, arg, files, cleanup_paths>>

NextCoerce == CoerceMain \/ CoerceApp

SpecCoerce == InitCoerce /\ [][NextCoerce]_vars

\* a legacy entry: a dict without the content key
LegacyEntry(item) == IsDict(item) /\ "content" \notin item.has

\* the content a legacy entry stands for: every bullet behind "- ", and the
\* description unless it is empty or None, in the order asked for
LegacyExpected(item) ==
    LET d == Get(item, "description", <<>>)
        desc == IF d = <<>> \/ d = NONE THEN <<>> ELSE <<d>>
        bullets == DashAll(Get(item, "bullets", <<>>))
    IN IF Get(item, "order", "bullets_first") = "description_first"
       THEN JoinNL(desc \o bullets)
       ELSE JoinNL(bullets \o desc)

\* C23: for a legacy entry, the content reconstructed by the generator and
\* the content reconstructed by app are both the newline-joined bullets, each
\* behind "- ", and the description, bullets first unless order is
\* "description_first"; an empty description gives no line.
LegacyCoercion ==
    (mode = "coerce" /\ LegacyEntry(arg)) =>
        /\ res.main \in {NotCalled, Ok(LegacyExpected(arg))}
        /\ res.app \in {NotCalled, Ok(LegacyExpected(arg))}

\* C30: for every execution entry, the content the generator takes from the
\* raw entry is the content app._normalize_execution_output gives for it.
CoercionsAgree ==
    (mode = "coerce" /\ pc = "both") => res.main = res.app

-----------------------------------------------------------------------------
(* Specification SpecLists: a normalizer of app.py called on a raw value, or *)
(* a form parser of app.py called on the lists of a submitted form           *)

FormLists == SeqsUpTo(FormTexts, MaxItems)

InitLists ==
    /\ mode \in {"normalize", "parse"}
    /\ pc = "call"
    /\ arg \in IF mode = "normalize" THEN RawValues
               ELSE [first : FormLists, second : FormLists, third : FormLists]
    /\ res = <<>>
    /\ doc = NoDoc /\ tmpl = NoDoc /\ nid = 0 /\ data = NoData
    /\ output = <<>> /\ deleted = <<>>
    /\ files = {} /\ cleanup_paths = <<>>

\* a form parser called on the lists of the form
ParseCall(out, at) ==
    /\ mode = "parse" /\ pc = "call"
    /\ res' = <<Ok(out)>>
    /\ pc' = at
    /\ UNCHANGED <<mode, doc, nid, tmpl, data, output, deleted, arg, files, cleanup_paths>>

ParseExecution ==
    ParseCall(_parse_execution_form(arg.first, arg.second), "execution_output")

ParseSop ==
    ParseCall(_parse_sop_form(arg.first, arg.second), "sop_items")

ParseFriction ==
    ParseCall(_parse_friction_form(arg.first, arg.second, arg.third),
              "friction_blockers_ask")

NextLists == NextNormalize \/ ParseExecution \/ ParseSop \/ ParseFriction

SpecLists == InitLists /\ [][NextLists]_vars

\* the entry each field has for an empty input
DefaultEntry(field) ==
    CASE field = "execution_output" -> ExecPlaceholder
      [] field = "sop_items" -> SopDefault
      [] field = "friction_blockers_ask" -> FrictionPlaceholder

\* an empty input: a falsy raw value, or a form without any row
EmptyInput ==
    IF mode = "normalize" THEN Falsy(arg)
    ELSE arg.first = <<>> /\ arg.second = <<>> /\ arg.third = <<>>

\* C24: whenever a normalizer or a form parser returns, the list it returns
\* has at least one entry, and for an empty input the list is the one default
\* entry of the field.
ListsNeverEmpty ==
    (mode \in {"normalize", "parse"} /\ pc # "call" /\ ~res[1].raised) =>
        /\ res[1].out # <<>>
        /\ EmptyInput => res[1].out = <<DefaultEntry(pc)>>

\* the SOP normalizer has returned the default entry for None
ListsNeverEmptyWitness ==
    /\ mode = "normalize" /\ pc = "sop_items" /\ arg = RawNone
    /\ res = <<Ok(<<SopDefault>>)>>

-----------------------------------------------------------------------------
(* Specification SpecAiTasks: the AI task rows of a submitted form parsed by *)
(* /generate.  A form holds, for each task index below AiRows, any subset of *)
(* the four keys ai_task_<i>_task, ai_task_<i>_tool_agent,                   *)
(* ai_task_<i>_time_saved and ai_task_<i>_insight_failure (request.form.get  *)
(* gives "" for a key that was not sent).  Indexes are written in decimal    *)
(* without sign or leading zero.                                             *)

AiRows == 2
AiIndices == 0..(AiRows - 1)
AiFields == {"task", "tool_agent", "time_saved", "insight_failure"}

AiRow(has, task, tool_agent, time_saved, insight_failure) ==
    [has |-> has, task |-> task, tool_agent |-> tool_agent,
     time_saved |-> time_saved, insight_failure |-> insight_failure]

\* the rows a form may hold; a row with no key was not sent
AiRowValues ==
    { AiRow(has, task, tool_agent, time_saved, insight_failure) :
        has \in SUBSET AiFields,
        task \in {<<>>, <<SP>>, <<SP, "t">>},
        tool_agent \in {<<>>, <<SP>>, <<"g">>},
        time_saved \in {<<>>, <<"s">>},
        insight_failure \in {<<>>, <<"i">>} }

\* a key that was not sent has no value; the last two fields, when sent,
\* are sent filled
WellFormedRow(row) ==
    /\ ("task" \in row.has) = (row.task # <<>>)
    /\ ("tool_agent" \in row.has) = (row.tool_agent # <<>>)
    /\ ("time_saved" \in row.has) = (row.time_saved # <<>>)
    /\ ("insight_failure" \in row.has) = (row.insight_failure # <<>>)

AiForms == [AiIndices -> {row \in AiRowValues : WellFormedRow(row)}]

\* request.form.get("ai_task_<i>_<field>", "").strip()
FormGet(form, i, field) ==
    IF i \in DOMAIN form /\ field \in form[i].has THEN Strip(form[i][field]) ELSE <<>>

\* the indexes found: the keys that start with "ai_task_" and end with "_task"
task_indices(form) == {i \in DOMAIN form : "task" \in form[i].has}

\* sorted(S) from its smallest element on
RECURSIVE Sorted(_)
Sorted(S) ==
    IF S = {} THEN <<>>
    ELSE LET m == CHOOSE m \in S : \A x \in S : m <= x
         IN <<m>> \o Sorted(S \ {m})

\* the loop over sorted(task_indices): a row is appended if a field is not ""
RECURSIVE AiTaskRows(_, _)
AiTaskRows(form, indices) ==
    IF indices = <<>> THEN <<>>
    ELSE LET i == Head(indices)
             task == FormGet(form, i, "task")
             tool_agent == FormGet(form, i, "tool_agent")
             time_saved == FormGet(form, i, "time_saved")
             insight_failure == FormGet(form, i, "insight_failure")
             rest == AiTaskRows(form, Tail(indices))
         IN IF task # <<>> \/ tool_agent # <<>> \/ time_saved # <<>> \/ insight_failure # <<>>
            THEN <<AiRow(AiFields, task, tool_agent, time_saved, insight_failure)>> \o rest
            ELSE rest

InitAiTasks ==
    /\ mode = "ai_tasks"
    /\ pc = "call"
    /\ arg \in AiForms
    /\ res = <<>>
    /\ doc = NoDoc /\ tmpl = NoDoc /\ nid = 0 /\ data = NoData
    /\ output = <<>> /\ deleted = <<>>
    /\ files = {} /\ cleanup_paths = <<>>

\* /generate: the AI task rows parsed into data["transformation_log"]
ParseAiTasks ==
    /\ mode = "ai_tasks" /\ pc = "call"
    /\ res' = <<AiTaskRows(arg, Sorted(task_indices(arg)))>>
    /\ pc' = "parsed"
    /\ UNCHANGED <<mode, doc, nid, tmpl, data, output, deleted, arg, files, cleanup_paths>>

NextAiTasks == ParseAiTasks

SpecAiTasks == InitAiTasks /\ [][NextAiTasks]_vars

\* the row of index i has a field that is not blank
AiRowFilled(form, i) ==
    \E field \in AiFields : field \in form[i].has /\ Strip(form[i][field]) # <<>>

\* the rows that are to be kept, in ascending order of index, trimmed
RECURSIVE AiExpected(_, _)
AiExpected(form, i) ==
    IF i \notin DOMAIN form THEN <<>>
    ELSE (IF AiRowFilled(form, i)
          THEN <<AiRow(AiFields, FormGet(form, i, "task"), FormGet(form, i, "tool_agent"),
                       FormGet(form, i, "time_saved"), FormGet(form, i, "insight_failure"))>>
          ELSE <<>>) \o AiExpected(form, i + 1)

\* C25: the ai_acceleration_tasks list parsed from a form holds exactly the
\* rows with a field that is not blank after trimming, in ascending order of
\* task index: no blank row is kept and no other row is dropped.
AiRowsKept ==
    (mode = "ai_tasks" /\ pc = "parsed") => res[1] = AiExpected(arg, 0)

-----------------------------------------------------------------------------
(* The Next Week's Focus region after the focus step of main *)

\* the text of the line of entry i of next_week_focus
FocusLineText(lines, i) == <<"Focus", SP, NumStr(i), ":", SP>> \o RunValue(lines[i])

\* the paragraphs of the document after the focus heading of the template
FocusTail == SubSeq(doc, PosOf(doc, NwId) + 1, Len(doc))

FocusEntries == Get(data, "next_week_focus", <<>>)

\* C26: once the focus step has run on a template that holds the focus
\* heading, the heading paragraph is in the document as it was, none of the
\* template's paragraphs follows it, and the paragraphs that follow it are
\* the lines "Focus 1: ...", "Focus 2: ..." of the entries of
\* next_week_focus, one per entry and in list order.
FocusTerminal ==
    (mode = "render" /\ pc \in {"save", "done"} /\ NwId \in Ids(tmpl)) =>
        /\ NwId \in Ids(doc)
        /\ doc[PosOf(doc, NwId)] = tmpl[PosOf(tmpl, NwId)]
        /\ \A k \in 1..Len(FocusTail) : FocusTail[k].id \notin Ids(tmpl)
        /\ Len(FocusTail) = Len(FocusEntries)
        /\ \A k \in 1..Len(FocusTail) :
              ParaText(FocusTail[k]) = FocusLineText(FocusEntries, k)

\* a finished run with two focus entries on a template that had a paragraph
\* after the focus heading
FocusTerminalWitness ==
    /\ mode = "render" /\ pc = "done"
    /\ NwId \in Ids(tmpl)
    /\ PosOf(tmpl, NwId) < Len(tmpl)
    /\ Len(FocusEntries) = 2
    /\ Len(FocusTail) = 2

-----------------------------------------------------------------------------
(* Specification SpecChain: insertions chained from an anchor paragraph of a *)
(* document, each made after the paragraph the previous one returned.  tmpl  *)
(* is the document before the first insertion and res the paragraphs         *)
(* returned so far.                                                          *)

MaxChain == 3

ChainTexts == {<<"A">>, <<"x">>}
ChainDocs == {DocOfTexts(ts) : ts \in SeqsUpTo(ChainTexts, MaxDocLen) \ {<<>>}}
ChainRuns == {<<>>, <<Run(<<"l">>, TRUE), Run(<<>>, FALSE)>>}

InitChain ==
    /\ mode = "chain"
    /\ pc = "insert"
    /\ tmpl \in ChainDocs
    /\ doc = tmpl
    /\ arg \in [anchor : Ids(tmpl)]
    /\ nid = Len(tmpl) + 1
    /\ res = <<>>
    /\ data = NoData
    /\ output = <<>> /\ deleted = <<>>
    /\ files = {} /\ cleanup_paths = <<>>

\* the paragraph the next insertion goes after
ChainLast == IF res = <<>> THEN arg.anchor ELSE Last(res)

\* the cursor c left by an insertion becomes the state
ChainStep(c) ==
    /\ mode = "chain" /\ pc = "insert" /\ Len(res) < MaxChain
    /\ doc' = c.doc
    /\ nid' = c.nid
    /\ res' = Append(res, c.last)
    /\ UNCHANGED <<mode, pc, tmpl, data, output, deleted, arg, files, cleanup_paths>>

\* last = insert_paragraph_after(last, text, style)
ChainInsert ==
    \E text \in {<<>>, <<"t">>} :
        ChainStep(insert_paragraph_after(Cursor(doc, ChainLast, nid), text, ListParagraph))

\* last = insert_paragraph_after_runs(last, runs, style)
ChainInsertRuns ==
    \E runs \in ChainRuns :
        ChainStep(insert_paragraph_after_runs(Cursor(doc, ChainLast, nid), runs, Normal))

NextChain == ChainInsert \/ ChainInsertRuns

SpecChain == InitChain /\ [][NextChain]_vars

\* C27: after k chained insertions from an anchor, the document is the
\* paragraphs up to the anchor, then the k returned paragraphs in the order
\* of insertion, all new, then the paragraphs that followed the anchor
\* before, unchanged.
ChainContiguous ==
    mode = "chain" =>
        LET a == PosOf(tmpl, arg.anchor)
            k == Len(res)
        IN /\ Len(doc) = Len(tmpl) + k
           /\ SubSeq(doc, 1, a) = SubSeq(tmpl, 1, a)
           /\ \A j \in 1..k : doc[a + j].id = res[j] /\ res[j] \notin Ids(tmpl)
           /\ \A i, j \in 1..k : i # j => res[i] # res[j]
           /\ SubSeq(doc, a + k + 1, Len(doc)) = SubSeq(tmpl, a + 1, Len(tmpl))

\* three insertions chained from an anchor that had a paragraph after it
ChainContiguousWitness ==
    /\ mode = "chain"
    /\ Len(res) = MaxChain
    /\ PosOf(tmpl, arg.anchor) < Len(tmpl)
    /\ doc[Len(doc)] = tmpl[Len(tmpl)]

-----------------------------------------------------------------------------
(* The numbering and the spacers of the friction region *)

FrictionRegion == RegionOf(doc, H_FR)

\* a "Friction N: " line
IsFrictionLine(p) == p.runs # <<>> /\ p.runs[1].bold /\ Head(p.runs[1].text) = "Friction"

\* the numbers N of the "Friction N: " lines of the region, in order
FrictionNumbers ==
    LET ps == SelectSeq(FrictionRegion, IsFrictionLine)
    IN [k \in 1..Len(ps) |-> <<ps[k].runs[1].text[3]>>]

\* C29: after a run of main the "Friction N: " lines of the friction region
\* are numbered 1, 2, ... without gap, one blank paragraph stands before each
\* of them but the first, no two blank paragraphs follow each other, and the
\* region ends with one blank paragraph.
FrictionNumbering ==
    (mode = "render" /\ pc = "done") =>
        LET r == FrictionRegion
        IN /\ \A k \in 1..Len(FrictionNumbers) : FrictionNumbers[k] = NumStr(k)
           /\ r # <<>> /\ IsBlankPara(r[Len(r)])
           /\ \A i \in 1..(Len(r) - 1) : ~(IsBlankPara(r[i]) /\ IsBlankPara(r[i + 1]))
           /\ \A i \in 2..Len(r) : IsFrictionLine(r[i]) => IsBlankPara(r[i - 1])
           /\ (Len(r) > 1 => IsFrictionLine(r[1]))

====
